---- MODULE Spec2Model ----
(***************************************************************************)
(* A model of the remote file-operations client of the JupyterHub File     *)
(* Explorer (FileExplorerProvider): its response cache and in-flight       *)
(* request table, its adaptive request delay, its file-system operations   *)
(* (create, write, delete, force delete) and its drag-and-drop move.       *)
(*                                                                         *)
(* Several specifications share the variables below; each one drives the   *)
(* part of the provider it is about and leaves the rest untouched.         *)
(***************************************************************************)
EXTENDS Integers, Sequences, FiniteSets, TLC

(***************************************************************************)
(* Bounds of the model.                                                    *)
(***************************************************************************)
\* the clock (Date.now()) runs over 0..MaxTime ticks
MaxTime == 3
\* the configured cacheTimeout is drawn from 1..MaxCacheTimeout ticks
MaxCacheTimeout == 2
\* number of distinct keys the bulk-insert specification puts into the cache
MaxInserts == 103
\* the clock of Spec runs over 0..MaxClock ticks
MaxClock == 1
\* number of concurrent activations of getChildren
NCallers == 2
\* number of getChildren calls one behaviour of Spec starts
MaxCalls == 2
\* number of connections one behaviour of Spec makes
MaxConnections == 2
\* the request counters nDelete and nList stop counting at CountCap
CountCap == 3
\* number of items dragged in one drop
MaxBatch == 2
\* callbacks of the health-check interval that may be running at once
MaxHealthChecks == 2
\* pending reconnect timeouts whose handle was overwritten by a later one
MaxStaleTimers == 1

(***************************************************************************)
(* Program constants.                                                      *)
(***************************************************************************)
\* setCache: "if (this.cache.size > 100)"
SetCacheLimit == 100
\* package.json: jupyterFileExplorer.maxCacheSize default and minimum
DefaultMaxCacheSize == 100
MinMaxCacheSize == 10

NULL == "null"

VARIABLES
    \* ---- FileExplorerProvider fields ----
    cache,            \* Map<string,{data,timestamp}> in insertion order
    pendingRequests,  \* Map<string,Promise>: key -> caller whose request it is
    requestDelay,     \* this.requestDelay, in 1/1000 ms
    lastRequestTime,  \* this.lastRequestTime
    isConnected,      \* this.isConnected
    axiosInstance,    \* this.axiosInstance: 0 (null) or the connection's number
    \* ---- configuration and environment ----
    cacheTimeout,     \* jupyterFileExplorer.cacheTimeout, in ticks
    maxCacheSize,     \* jupyterFileExplorer.maxCacheSize
    now,              \* Date.now(), in ticks
    \* ---- observations of the cache unit specifications ----
    lastPut,          \* the last setCache call: [key, data, at]
    lastGet,          \* the last getFromCache call and what it returned
    putKeys,          \* keys inserted so far, in order (bulk insert)
    \* ---- concurrent getChildren calls (Spec) ----
    enableCaching,    \* jupyterFileExplorer.enableCaching
    callers,          \* the activations of getChildren / makeRequestWithCache
    mq,               \* the microtask queue: activations ready to resume
    nCalls,           \* calls started so far
    connCount,        \* axios instances created so far
    \* ---- file-system operations against the contents API (SpecFs) ----
    tree,             \* the server: the API paths that exist
    op,               \* the running top-level operation (delete, forceDelete, ...)
    task,             \* per path: the activation of a recursive helper working on it
    events,           \* the FileChangeEvents fired through _emitter, in order
    nDelete,          \* DELETE requests issued (counted up to CountCap)
    nList,            \* listing GETs issued by the recursive helpers (up to CountCap)
    delIssued,        \* paths a DELETE request was issued for
    targetAcked,      \* a DELETE of the operation's own path was answered (resolved)
    exhausted,        \* files for which deleteFileWithRetry gave up
    listed,           \* per directory: the listing deleteDirectoryRecursive got first
    \* ---- drag and drop inside the tree (SpecMove) ----
    move,             \* the running handleInternalMove: its locals and its requests
    \* ---- uploads (SpecUpload) ----
    upload,           \* the running uploadFile / uploadFolder / handleExternalFileUpload
    \* ---- the rate-limit gate (SpecGate) ----
    gate,             \* per request: where it is in enforceRateLimit
    grants,           \* the times at which enforceRateLimit let a request go
    norm,             \* a path and what a path conversion made of it
    \* ---- the periodic health check (SpecHealth) ----
    health,           \* per interval tick: where its checkConnectionHealth call is
    \* ---- extension.ts: connect, disconnect and auto-reconnect ----
    lastConnection,   \* whether lastConnection is set (the connection last established)
    reconnectAttempts, \* reconnectAttempts
    reconnectTimer,   \* the reconnect timeouts: whether the one whose handle
                      \* reconnectTimer holds is pending ("armed") or there is none,
                      \* and how many pending ones lost their handle
    autoConnects,     \* connectToJupyter calls made by the extension itself since the
                      \* user last connected or disconnected, or the server last answered
    budget            \* how many calls and connections a behaviour may make

cacheVars == <<cache, cacheTimeout, maxCacheSize, now, lastPut, lastGet, putKeys>>
clientVars == <<pendingRequests, requestDelay, lastRequestTime, isConnected, axiosInstance,
                enableCaching, callers, mq, nCalls, connCount>>
fsVars == <<tree, op, task, events, nDelete, nList, delIssued, targetAcked, exhausted, listed>>
moveVars == <<move>>
uploadVars == <<upload>>
gateVars == <<gate, grants>>
pathVars == <<norm>>
healthVars == <<health>>
restVars == <<moveVars, uploadVars, gateVars, pathVars, healthVars>>
extVars == <<lastConnection, reconnectAttempts, reconnectTimer, autoConnects, budget>>
vars == <<cacheVars, clientVars, fsVars, restVars, extVars>>

(***************************************************************************)
(* JavaScript Map, kept as a sequence of entries in insertion order.       *)
(***************************************************************************)
MapKeys(m) == {m[i].key : i \in 1..Len(m)}

MapHas(m, k) == k \in MapKeys(m)

MapGet(m, k) == m[CHOOSE i \in 1..Len(m) : m[i].key = k]

\* Map.prototype.set: an existing key keeps its position
MapSet(m, k, e) ==
    IF MapHas(m, k)
    THEN [i \in 1..Len(m) |-> IF m[i].key = k THEN e ELSE m[i]]
    ELSE Append(m, e)

MapDelete(m, k) == SelectSeq(m, LAMBDA e : e.key # k)

(***************************************************************************)
(* ResponseCache: getFromCache / setCache.                                 *)
(***************************************************************************)
\* (mutant) an entry whose age equals the timeout is still served
getFromCacheDataInclusive(m, key, t, timeout) ==
    IF MapHas(m, key) /\ (t - MapGet(m, key).timestamp) <= timeout
    THEN MapGet(m, key).data
    ELSE NULL

\* getFromCache(key): the value returned
getFromCacheData(m, key, t, timeout) ==
    IF MapHas(m, key) /\ (t - MapGet(m, key).timestamp) < timeout
    THEN MapGet(m, key).data
    ELSE NULL

\* getFromCache(key): the cache it leaves behind
getFromCacheMap(m, key, t, timeout) ==
    IF MapHas(m, key) /\ (t - MapGet(m, key).timestamp) < timeout
    THEN m
    ELSE MapDelete(m, key)

\* setCache(key, data): the cache it leaves behind
setCache(m, key, data, t) ==
    LET evicted == IF Len(m) > SetCacheLimit THEN MapDelete(m, m[1].key) ELSE m
    IN  MapSet(evicted, key, [key |-> key, data |-> data, timestamp |-> t])

(***************************************************************************)
(* Paths are JavaScript strings, kept as sequences of one-character        *)
(* strings, so that split, join, startsWith and replace act on characters. *)
(***************************************************************************)
Slash == <<"/">>

\* s.startsWith(prefix)
startsWith(s, prefix) ==
    Len(prefix) <= Len(s) /\ SubSeq(s, 1, Len(prefix)) = prefix

\* "p.startsWith('/') ? p.substring(1) : p"
stripLeadingSlash(s) == IF startsWith(s, Slash) THEN SubSeq(s, 2, Len(s)) ELSE s

\* s.split('/')
RECURSIVE split(_)
split(s) ==
    IF \A i \in 1..Len(s) : s[i] # "/"
    THEN <<s>>
    ELSE LET i == CHOOSE j \in 1..Len(s) :
                      s[j] = "/" /\ \A k \in 1..(j - 1) : s[k] # "/"
         IN  <<SubSeq(s, 1, i - 1)>> \o split(SubSeq(s, i + 1, Len(s)))

\* parts.join('/')
RECURSIVE join(_)
join(parts) ==
    IF Len(parts) = 0 THEN <<>>
    ELSE IF Len(parts) = 1 THEN parts[1]
    ELSE parts[1] \o Slash \o join(Tail(parts))

\* extractParentPath(path): parts = path.split('/'); parts.pop();
\* return parts.join('/') || '/'
\* (mutant) without the "|| '/'" fallback
extractParentPathNoFallback(path) ==
    LET parts == split(path)
    IN  join(SubSeq(parts, 1, Len(parts) - 1))

extractParentPath(path) ==
    LET parts == split(path)
        joined == join(SubSeq(parts, 1, Len(parts) - 1))
    IN  IF joined = <<>> THEN Slash ELSE joined

(***************************************************************************)
(* The server's tree: a directory d with files a, b, c and a subdirectory  *)
(* s holding a file x.  API paths carry no leading slash.                  *)
(***************************************************************************)
PathD == <<"d">>
PathA == <<"d", "/", "a">>
PathB == <<"d", "/", "b">>
PathC == <<"d", "/", "c">>
PathS == <<"d", "/", "s">>
PathX == <<"d", "/", "s", "/", "x">>

\* every path of the tree, in the order the server lists them
Universe == <<PathD, PathA, PathB, PathC, PathS, PathX>>

Paths == {Universe[i] : i \in 1..Len(Universe)}

Dirs == {PathD, PathS}

\* the directory an API path lies in ("" for a top-level entry)
dirOf(p) == join(SubSeq(split(p), 1, Len(split(p)) - 1))

ChildrenOf(t, dir) == {p \in t : dirOf(p) = dir}

\* response.data.content of GET api/contents/{dir}: the entries of dir
ListOf(t, dir) == SelectSeq(Universe, LAMBDA p : p \in t /\ dirOf(p) = dir)

\* the trees a behaviour may start from
Trees ==
    {{PathD},
     {PathD, PathA},
     {PathD, PathA, PathB, PathC},
     {PathD, PathS},
     {PathD, PathS, PathX}}

IdleTask == [fn |-> "none", pc |-> "", attempt |-> 0, max |-> 0,
             contents |-> <<>>, idx |-> 0, res |-> "", err |-> "", dirRejects |-> 0]

NoOp == [kind |-> "none", pc |-> "", uri |-> <<>>, recursive |-> FALSE,
         create |-> FALSE, res |-> "", err |-> "", dirRejects |-> 0]

NoMove == [pc |-> "idle", items |-> <<>>, targetPath |-> <<>>, idx |-> 0,
           successCount |-> 0, errorCount |-> 0, results |-> <<>>,
           patches |-> <<>>, answers |-> <<>>, refreshes |-> 0]

NoUpload == [pc |-> "idle", mode |-> "", items |-> <<>>, idx |-> 0, plan |-> <<>>,
             sent |-> <<>>, resolved |-> {}, successCount |-> 0, errorCount |-> 0,
             refreshes |-> 0, warnings |-> 0, threw |-> FALSE]

NoNorm == [pc |-> "idle", path |-> <<>>, result |-> <<>>]

\* the ticks of the health-check interval whose callbacks may overlap
HealthChecks == 1..MaxHealthChecks

IdleCheck == [pc |-> "idle", instance |-> 0]

NoHealth == [h \in HealthChecks |-> IdleCheck]

FsIdle ==
    /\ upload = NoUpload
    /\ norm = NoNorm
    /\ health = NoHealth
    /\ gate = <<>>
    /\ grants = <<>>
    /\ move = NoMove
    /\ tree = {}
    /\ op = NoOp
    /\ task = [p \in Paths |-> IdleTask]
    /\ events = <<>>
    /\ nDelete = 0
    /\ nList = 0
    /\ delIssued = {}
    /\ targetAcked = FALSE
    /\ exhausted = {}
    /\ listed = [p \in Dirs |-> [seen |-> FALSE, contents |-> <<>>]]

(***************************************************************************)
(* The provider before any connection is made (field initialisers and the  *)
(* constructor).                                                           *)
(***************************************************************************)
NoCall == [key |-> NULL]

Callers == 1..NCallers

IdleCaller == [pc |-> "idle"]

\* no reconnect timeout is pending
NoTimer == [handle |-> "none", stale |-> 0]

\* extension.ts after activate(), with the bounds of the behaviours explored
ExtIdle ==
    /\ lastConnection = FALSE
    /\ reconnectAttempts = 0
    /\ reconnectTimer = NoTimer
    /\ autoConnects = 0
    /\ budget = [calls |-> MaxCalls, conns |-> MaxConnections]

ClientIdle ==
    /\ ExtIdle
    /\ pendingRequests = <<>>
    /\ requestDelay = 100000
    /\ lastRequestTime = 0
    /\ isConnected = FALSE
    /\ axiosInstance = 0
    /\ enableCaching = TRUE
    /\ callers = [c \in Callers |-> IdleCaller]
    /\ mq = <<>>
    /\ nCalls = 0
    /\ connCount = 0

CacheIdle ==
    /\ cache = <<>>
    /\ cacheTimeout = 1
    /\ maxCacheSize = DefaultMaxCacheSize
    /\ now = 0
    /\ lastPut = NoCall
    /\ lastGet = NoCall
    /\ putKeys = <<>>

(***************************************************************************)
(* SpecCache: the cache alone, driven by put, get and the clock.           *)
(***************************************************************************)
UnitKeys == {"k1", "k2"}
UnitData == {"v1", "v2"}

InitCache ==
    /\ ClientIdle
    /\ FsIdle
    /\ cache = <<>>
    /\ cacheTimeout \in 1..MaxCacheTimeout
    /\ maxCacheSize = DefaultMaxCacheSize
    /\ now = 0
    /\ lastPut = NoCall
    /\ lastGet = NoCall
    /\ putKeys = <<>>

CachePut(k, v) ==
    /\ cache' = setCache(cache, k, v, now)
    /\ lastPut' = [key |-> k, data |-> v, at |-> now]
    /\ UNCHANGED <<cacheTimeout, maxCacheSize, now, lastGet, putKeys>>
    /\ UNCHANGED <<clientVars, fsVars, restVars, extVars>>

CacheGet(k) ==
    /\ cache' = getFromCacheMap(cache, k, now, cacheTimeout)
    /\ lastGet' = [key |-> k,
                   data |-> getFromCacheData(cache, k, now, cacheTimeout),
                   at |-> now,
                   put |-> lastPut,
                   stored |-> IF MapHas(cache, k) THEN MapGet(cache, k) ELSE NoCall,
                   dropped |-> ~MapHas(getFromCacheMap(cache, k, now, cacheTimeout), k)]
    /\ UNCHANGED <<cacheTimeout, maxCacheSize, now, lastPut, putKeys>>
    /\ UNCHANGED <<clientVars, fsVars, restVars, extVars>>

Tick ==
    /\ now < MaxTime
    /\ now' = now + 1
    /\ UNCHANGED <<cache, cacheTimeout, maxCacheSize, lastPut, lastGet, putKeys>>
    /\ UNCHANGED <<clientVars, fsVars, restVars, extVars>>

NextCache ==
    \/ \E k \in UnitKeys, v \in UnitData : CachePut(k, v)
    \/ \E k \in UnitKeys : CacheGet(k)
    \/ Tick

SpecCache == InitCache /\ [][NextCache]_vars

(***************************************************************************)
(* SpecEvict: distinct keys put one after the other into an empty cache.   *)
(***************************************************************************)
InitEvict ==
    /\ ClientIdle
    /\ FsIdle
    /\ cache = <<>>
    /\ cacheTimeout = 1
    /\ maxCacheSize \in {MinMaxCacheSize, DefaultMaxCacheSize}
    /\ now = 0
    /\ lastPut = NoCall
    /\ lastGet = NoCall
    /\ putKeys = <<>>

BulkInsert ==
    /\ Len(putKeys) < MaxInserts
    /\ LET k == Len(putKeys) + 1
       IN  /\ cache' = setCache(cache, k, "v1", now)
           /\ lastPut' = [key |-> k, data |-> "v1", at |-> now]
           /\ putKeys' = Append(putKeys, k)
    /\ UNCHANGED <<cacheTimeout, maxCacheSize, now, lastGet>>
    /\ UNCHANGED <<clientVars, fsVars, restVars, extVars>>

NextEvict == BulkInsert

SpecEvict == InitEvict /\ [][NextEvict]_vars

(***************************************************************************)
(* Spec: concurrent getChildren calls over makeRequestWithCache, with      *)
(* manual refresh, disconnect and connect.                                 *)
(*                                                                         *)
(* The extension host runs one JavaScript thread: a handler runs to its    *)
(* next await, and the continuations of a settled promise (the microtask   *)
(* queue mq) run, in the order they were registered, before any other      *)
(* event is handled.                                                       *)
(***************************************************************************)
Ms(n) == n * 1000

\* "no error" (adaptiveRateLimit(null)), "not settled yet", "no result yet"
NoError == [status |-> 0, code |-> "none"]

NoOutcome == [outcome |-> NoError, data |-> <<>>]

NoResult == [kind |-> "none"]

Min(a, b) == IF a < b THEN a ELSE b

Max(a, b) == IF a > b THEN a ELSE b

Urls == {"api/contents/", "api/contents/d"}

\* What the network does with one request: an HTTP status, or an axios error
\* code when no response arrives.
Outcomes ==
    {[status |-> 200, code |-> NULL],
     [status |-> 429, code |-> NULL],
     [status |-> 500, code |-> NULL],
     [status |-> 0, code |-> "ECONNABORTED"],
     [status |-> 0, code |-> "ECONNREFUSED"]}

\* the body of a response: it comes from the server the request was sent to
ServerData(conn) == <<"data of server", conn>>

\* axios.create({validateStatus: (status) => status < 500})
validateStatus(status) == status < 500

\* whether axios resolves the request promise (otherwise it rejects it)
Resolves(o) == o.code = NULL /\ validateStatus(o.status)

\* the response interceptor's rejected handler: the new requestDelay
responseInterceptor(rd, o) ==
    IF o.code = "ECONNABORTED" THEN rd
    ELSE IF o.code \in {"ENOTFOUND", "ECONNREFUSED"} THEN rd
    ELSE IF o.status = 429 THEN Min(rd * 2, Ms(2000))
    ELSE rd

\* adaptiveRateLimit(error): the new requestDelay; error is NoError on success.
\* requestDelay is a double in the code; here it is kept in 1/1000 ms and
\* the products are rounded down.
adaptiveRateLimit(rd, error) ==
    IF error # NoError /\ (error.status = 429 \/ error.code = "ECONNABORTED")
    THEN Min((rd * 3) \div 2, Ms(5000))
    ELSE IF error = NoError /\ rd > Ms(100)
    THEN Max((rd * 19) \div 20, Ms(100))
    ELSE rd

getCacheKey(url, method) == <<method, url>>

\* (mutant) clearCache that leaves the pending requests
clearCacheOnly ==
    /\ cache' = <<>>
    /\ pendingRequests' = pendingRequests

\* clearCache(): cache.clear(); pendingRequests.clear()
clearCache ==
    /\ cache' = <<>>
    /\ pendingRequests' = <<>>

\* (mutant) the waiting caller always goes on to issue its own request
JoinFallsThroughAlways(o) == TRUE

\* makeRequestWithCache, "try { return await pending } catch { ... }":
\* whether the caller that awaited another caller's request goes on to issue
\* a request of its own
JoinFallsThrough(o) == ~Resolves(o)

Init ==
    /\ cache = <<>>
    /\ cacheTimeout = 1
    /\ maxCacheSize = DefaultMaxCacheSize
    /\ now = 0
    /\ lastPut = NoCall
    /\ lastGet = NoCall
    /\ putKeys = <<>>
    /\ pendingRequests = <<>>
    /\ requestDelay = Ms(100)
    /\ lastRequestTime = 0
    /\ isConnected = FALSE
    /\ axiosInstance = 0
    /\ enableCaching \in BOOLEAN
    /\ callers = [c \in Callers |-> IdleCaller]
    /\ mq = <<>>
    /\ nCalls = 0
    /\ connCount = 0
    /\ FsIdle
    /\ ExtIdle

unitObs == <<lastPut, lastGet, putKeys>>

\* axiosInstance.get(url) inside makeRequestWithCache: the request is created,
\* registered as pending and awaited
IssueRequest(c, url, joined, jo) ==
    LET key == getCacheKey(url, "GET")
        base == IF jo # NoError THEN MapDelete(pendingRequests, key) ELSE pendingRequests
    IN  /\ callers' = [callers EXCEPT ![c] =
                [pc |-> "awaitOwn", url |-> url, req |-> "gate", conn |-> axiosInstance,
                 rd0 |-> 0,
                 waiters |-> <<>>, settled |-> NoOutcome, joined |-> joined,
                 joinOutcome |-> [outcome |-> jo, data |-> <<>>], origMrc |-> NoResult, issued |-> 1, mrc |-> NoResult]]
        /\ pendingRequests' =
                IF enableCaching
                THEN MapSet(base, key, [key |-> key, promise |-> c])
                ELSE base

\* getChildren(element) up to the first await inside makeRequestWithCache
getChildren(c, url) ==
    /\ mq = <<>>
    /\ callers[c].pc = "idle"
    /\ \A b \in Callers : b < c => callers[b].pc # "idle"
    /\ nCalls < budget.calls
    /\ isConnected /\ axiosInstance # 0
    /\ nCalls' = nCalls + 1
    /\ LET key == getCacheKey(url, "GET")
           cached == getFromCacheData(cache, key, now, cacheTimeout)
       IN  IF enableCaching /\ cached # NULL
           THEN \* served from the cache
                /\ callers' = [callers EXCEPT ![c] =
                        [pc |-> "gcResume", url |-> url, req |-> "none", conn |-> 0,
                         rd0 |-> 0,
                         waiters |-> <<>>, settled |-> NoOutcome, joined |-> 0,
                         joinOutcome |-> NoOutcome, origMrc |-> NoResult, issued |-> 0,
                         mrc |-> [kind |-> "cached", status |-> 200, data |-> cached]]]
                /\ mq' = <<c>>
                /\ UNCHANGED <<cache, pendingRequests>>
           ELSE IF enableCaching /\ MapHas(pendingRequests, key)
           THEN \* await the pending request of another caller
                LET owner == MapGet(pendingRequests, key).promise
                IN  /\ callers' = [callers EXCEPT
                            ![c] = [pc |-> "awaitJoin", url |-> url, req |-> "none",
                                    conn |-> 0, rd0 |-> 0, waiters |-> <<>>,
                                    settled |-> NoOutcome,
                                    joined |-> owner, joinOutcome |-> NoOutcome,
                                    origMrc |-> NoResult, issued |-> 0, mrc |-> NoResult],
                            ![owner].waiters = Append(@, c)]
                    /\ cache' = getFromCacheMap(cache, key, now, cacheTimeout)
                    /\ UNCHANGED <<pendingRequests, mq>>
           ELSE /\ IssueRequest(c, url, 0, NoError)
                /\ cache' = IF enableCaching
                            THEN getFromCacheMap(cache, key, now, cacheTimeout)
                            ELSE cache
                /\ UNCHANGED mq
    /\ UNCHANGED <<cacheTimeout, maxCacheSize, now, unitObs, requestDelay, lastRequestTime,
                   isConnected, axiosInstance, enableCaching, connCount>>
    /\ UNCHANGED <<fsVars, restVars, extVars>>

\* the request interceptor: enforceRateLimit() lets the request go out
enforceRateLimit(c) ==
    /\ mq = <<>>
    /\ callers[c].pc = "awaitOwn"
    /\ callers[c].req = "gate"
    /\ callers' = [callers EXCEPT ![c].req = "sent"]
    /\ lastRequestTime' = now
    /\ UNCHANGED <<cacheVars, pendingRequests, requestDelay, isConnected, axiosInstance,
                   enableCaching, mq, nCalls, connCount>>
    /\ UNCHANGED <<fsVars, restVars, extVars>>

\* the network answers (or fails) a request: its promise settles and the
\* continuations waiting on it are queued, the issuer's first
RequestSettles(c, o) ==
    /\ mq = <<>>
    /\ callers[c].pc = "awaitOwn"
    /\ callers[c].req = "sent"
    /\ callers' = [callers EXCEPT ![c].req = "settled",
                                  ![c].rd0 = requestDelay,
                                  ![c].settled = [outcome |-> o,
                                                  data |-> ServerData(callers[c].conn)]]
    /\ mq' = <<c>> \o callers[c].waiters
    /\ requestDelay' = IF Resolves(o) THEN requestDelay
                       ELSE responseInterceptor(requestDelay, o)
    /\ autoConnects' = IF o.code = NULL THEN 0 ELSE autoConnects
    /\ UNCHANGED <<cacheVars, pendingRequests, lastRequestTime, isConnected, axiosInstance,
                   enableCaching, nCalls, connCount>>
    /\ UNCHANGED <<fsVars, restVars, lastConnection, reconnectAttempts, reconnectTimer,
                   budget>>

\* makeRequestWithCache after "await requestPromise", for the caller that
\* issued the request: cache the response, adapt the delay, and in the
\* finally block drop the pending registration of the key
ResumeOwn(c) ==
    /\ mq # <<>> /\ Head(mq) = c
    /\ callers[c].pc = "awaitOwn"
    /\ LET o == callers[c].settled.outcome
           d == callers[c].settled.data
           key == getCacheKey(callers[c].url, "GET")
           rd == IF Resolves(o) THEN adaptiveRateLimit(requestDelay, NoError)
                 ELSE adaptiveRateLimit(requestDelay, o)
       IN  /\ cache' = IF Resolves(o) /\ enableCaching /\ o.status < 300
                       THEN setCache(cache, key, d, now)
                       ELSE cache
           /\ requestDelay' = rd
           /\ pendingRequests' = IF enableCaching
                                 THEN MapDelete(pendingRequests, key)
                                 ELSE pendingRequests
           /\ callers' = [callers EXCEPT
                    ![c].pc = "gcResume",
                    ![c].mrc = IF Resolves(o)
                               THEN [kind |-> "response", status |-> o.status, data |-> d]
                               ELSE [kind |-> "throw", error |-> o]]
    /\ mq' = Append(Tail(mq), c)
    /\ UNCHANGED <<cacheTimeout, maxCacheSize, now, unitObs, lastRequestTime, isConnected,
                   axiosInstance, enableCaching, nCalls, connCount>>
    /\ UNCHANGED <<fsVars, restVars, extVars>>

\* makeRequestWithCache after "await this.pendingRequests.get(pendingKey)",
\* for a caller that awaited another caller's request
ResumeJoin(c) ==
    /\ mq # <<>> /\ Head(mq) = c
    /\ callers[c].pc = "awaitJoin"
    /\ LET owner == callers[c].joined
           o == callers[owner].settled.outcome
           d == callers[owner].settled.data
           key == getCacheKey(callers[c].url, "GET")
       IN  IF ~JoinFallsThrough(o)
           THEN /\ callers' = [callers EXCEPT
                        ![c].pc = "gcResume",
                        ![c].joinOutcome = [outcome |-> o, data |-> d],
                        ![c].origMrc = callers[owner].mrc,
                        ![c].mrc = [kind |-> "response", status |-> o.status, data |-> d]]
                /\ mq' = Append(Tail(mq), c)
                /\ UNCHANGED pendingRequests
           ELSE IF axiosInstance = 0
           THEN /\ callers' = [callers EXCEPT
                        ![c].pc = "gcResume",
                        ![c].joinOutcome = [outcome |-> o, data |-> d],
                        ![c].origMrc = callers[owner].mrc,
                        ![c].mrc = [kind |-> "throw",
                                    error |-> [status |-> 0, code |-> "NOAXIOS"]]]
                /\ pendingRequests' = MapDelete(pendingRequests, key)
                /\ mq' = Append(Tail(mq), c)
           ELSE /\ IssueRequest(c, callers[c].url, owner, o)
                /\ mq' = Tail(mq)
    /\ UNCHANGED <<cacheVars, requestDelay, lastRequestTime, isConnected, axiosInstance,
                   enableCaching, nCalls, connCount>>
    /\ UNCHANGED <<fsVars, restVars, extVars>>

\* setConnection(url, token, remotePath) with a URL that parses: the cache
\* and the pending registrations are dropped and a new axios instance is set
setConnection ==
    /\ connCount < budget.conns
    /\ connCount' = connCount + 1
    /\ clearCache
    /\ axiosInstance' = connCount + 1
    /\ isConnected' = TRUE

\* setConnection when new URL(remotePath, url) throws: the catch block
setConnectionThrows ==
    /\ isConnected' = FALSE
    /\ axiosInstance' = 0
    /\ UNCHANGED <<cache, pendingRequests, connCount>>

\* jupyterFileExplorer.maxReconnectAttempts (default)
DefaultMaxReconnectAttempts == 3

\* connectToJupyter(connection): setConnection and what follows its await.
\* automatic: the call comes from the connection-lost listener or from a
\* reconnect timeout, which both pass lastConnection. timers: the reconnect
\* timeouts pending when the call starts. "reconnectTimer = setTimeout(...)"
\* overwrites the handle of a timeout that is still pending without clearing
\* it; clearTimeout(reconnectTimer) stops only the one whose handle is held.
connectToJupyterFrom(timers, urlValid, autoReconnect, automatic) ==
    /\ autoConnects' = IF automatic THEN autoConnects + 1 ELSE 0
    /\ IF urlValid
       THEN /\ setConnection
            /\ lastConnection' = TRUE
            /\ reconnectAttempts' = 0
            /\ reconnectTimer' = [timers EXCEPT !.handle = "none"]
       ELSE /\ setConnectionThrows
            /\ UNCHANGED lastConnection
            /\ IF autoReconnect /\ lastConnection
                  /\ reconnectAttempts < DefaultMaxReconnectAttempts
               THEN /\ reconnectAttempts' = reconnectAttempts + 1
                    /\ reconnectTimer' =
                          [handle |-> "armed",
                           stale |-> IF timers.handle = "armed"
                                     THEN timers.stale + 1 ELSE timers.stale]
               ELSE /\ reconnectAttempts' =
                        IF autoReconnect /\ reconnectAttempts >= DefaultMaxReconnectAttempts
                        THEN 0 ELSE reconnectAttempts
                    /\ reconnectTimer' = timers

connectToJupyter(urlValid, autoReconnect, automatic) ==
    connectToJupyterFrom(reconnectTimer, urlValid, autoReconnect, automatic)

\* handleConnectionLoss(), called while isConnected: isConnected = false,
\* clearCache(), _onConnectionLost.fire(); the listener of extension.ts runs
\* inside fire() and calls connectToJupyter(lastConnection)
handleConnectionLoss(autoReconnect) ==
    IF autoReconnect /\ lastConnection
    THEN connectToJupyter(TRUE, autoReconnect, TRUE)
    ELSE /\ isConnected' = FALSE
         /\ clearCache
         /\ UNCHANGED <<axiosInstance, connCount, lastConnection, reconnectAttempts,
                        reconnectTimer, autoConnects>>

\* getChildren after "await this.makeRequestWithCache(apiUrl)": the items, or
\* on an error handleApiError (adaptiveRateLimit, handleConnectionLoss) and [];
\* the activation ends. autoReconnect is the setting the listener reads.
getChildrenEnds(c, autoReconnect, after) ==
    /\ mq # <<>> /\ Head(mq) = c
    /\ callers[c].pc = "gcResume"
    /\ mq' = Tail(mq)
    /\ callers' = [callers EXCEPT ![c] = after]
    /\ IF callers[c].mrc.kind # "throw"
       THEN UNCHANGED <<cache, pendingRequests, requestDelay, isConnected, axiosInstance,
                        connCount, lastConnection, reconnectAttempts, reconnectTimer,
                        autoConnects>>
       ELSE LET e == callers[c].mrc.error
                rd == adaptiveRateLimit(requestDelay, e)
                lost == e.code \in {"ENOTFOUND", "ECONNREFUSED"} /\ isConnected
            IN  /\ requestDelay' = rd
                /\ IF lost
                   THEN handleConnectionLoss(autoReconnect)
                   ELSE UNCHANGED <<cache, pendingRequests, isConnected, axiosInstance,
                                    connCount, lastConnection, reconnectAttempts,
                                    reconnectTimer, autoConnects>>
    /\ UNCHANGED <<cacheTimeout, maxCacheSize, now, unitObs, lastRequestTime,
                   enableCaching, nCalls>>
    /\ UNCHANGED <<fsVars, restVars, budget>>

ResumeGetChildren(c, autoReconnect) == getChildrenEnds(c, autoReconnect, IdleCaller)

\* time passes between two events
ClockTick ==
    /\ mq = <<>>
    /\ now < MaxClock
    /\ now' = now + 1
    /\ UNCHANGED <<cache, cacheTimeout, maxCacheSize, unitObs, clientVars>>
    /\ UNCHANGED <<fsVars, restVars, extVars>>

\* refresh(): clearCache() and fire the tree-data event
refresh ==
    /\ mq = <<>>
    /\ clearCache
    /\ UNCHANGED <<cacheTimeout, maxCacheSize, now, unitObs, requestDelay, lastRequestTime,
                   isConnected, axiosInstance, enableCaching, callers, mq, nCalls,
                   connCount>>
    /\ UNCHANGED <<fsVars, restVars, extVars>>

\* the connect command: the user picks a connection and connectToJupyter runs
connectCommand(urlValid, autoReconnect) ==
    /\ mq = <<>>
    /\ (~urlValid /\ autoReconnect /\ lastConnection /\ reconnectTimer.handle = "armed")
          => reconnectTimer.stale < MaxStaleTimers
    /\ connectToJupyter(urlValid, autoReconnect, FALSE)
    /\ UNCHANGED <<cacheTimeout, maxCacheSize, now, unitObs, requestDelay, lastRequestTime,
                   enableCaching, callers, mq, nCalls>>
    /\ UNCHANGED <<fsVars, restVars, budget>>

\* the reconnect timeout set by a failed connectToJupyter fires
reconnectTimerFires(autoReconnect) ==
    /\ mq = <<>>
    /\ reconnectTimer.handle = "armed"
    /\ connectToJupyter(TRUE, autoReconnect, TRUE)
    /\ UNCHANGED <<cacheTimeout, maxCacheSize, now, unitObs, requestDelay, lastRequestTime,
                   enableCaching, callers, mq, nCalls>>
    /\ UNCHANGED <<fsVars, restVars, budget>>

\* a reconnect timeout whose handle was overwritten fires: its callback calls
\* connectToJupyter(lastConnection!). With lastConnection undefined the call
\* throws at "connection.url" inside the try block and the catch block runs
\* with lastConnection unset: no setConnection, an error message.
overwrittenTimerFires(autoReconnect) ==
    /\ mq = <<>>
    /\ reconnectTimer.stale > 0
    /\ LET timers == [reconnectTimer EXCEPT !.stale = @ - 1]
       IN  IF lastConnection
           THEN connectToJupyterFrom(timers, TRUE, autoReconnect, TRUE)
           ELSE /\ autoConnects' = autoConnects + 1
                /\ reconnectAttempts' =
                      IF autoReconnect /\ reconnectAttempts >= DefaultMaxReconnectAttempts
                      THEN 0 ELSE reconnectAttempts
                /\ reconnectTimer' = timers
                /\ UNCHANGED <<cache, pendingRequests, isConnected, axiosInstance, connCount,
                               lastConnection>>
    /\ UNCHANGED <<cacheTimeout, maxCacheSize, now, unitObs, requestDelay, lastRequestTime,
                   enableCaching, callers, mq, nCalls>>
    /\ UNCHANGED <<fsVars, restVars, budget>>

\* disconnect()
disconnect ==
    /\ clearCache
    /\ axiosInstance' = 0
    /\ isConnected' = FALSE
    /\ lastRequestTime' = 0
    /\ requestDelay' = Ms(100)

\* the disconnect command: disconnectFromJupyter()
disconnectFromJupyter ==
    /\ mq = <<>>
    /\ axiosInstance # 0 \/ isConnected
    /\ disconnect
    /\ lastConnection' = FALSE
    /\ reconnectAttempts' = 0
    /\ reconnectTimer' = [reconnectTimer EXCEPT !.handle = "none"]
    /\ autoConnects' = 0
    /\ UNCHANGED <<cacheTimeout, maxCacheSize, now, unitObs, enableCaching, callers, mq,
                   nCalls, connCount>>
    /\ UNCHANGED <<fsVars, restVars, budget>>

Next ==
    \/ \E c \in Callers, u \in Urls : getChildren(c, u)
    \/ \E c \in Callers : enforceRateLimit(c)
    \/ \E c \in Callers, o \in Outcomes : RequestSettles(c, o)
    \/ \E c \in Callers : ResumeOwn(c)
    \/ \E c \in Callers : ResumeJoin(c)
    \/ \E c \in Callers, ar \in BOOLEAN : ResumeGetChildren(c, ar)
    \/ refresh
    \/ \E ar \in BOOLEAN : connectCommand(TRUE, ar)
    \/ disconnectFromJupyter
    \/ ClockTick

Spec == Init /\ [][Next]_vars

(***************************************************************************)
(* SpecSession: one caller listing one directory over a long session, with *)
(* the connect and disconnect commands, connection loss and the reconnect  *)
(* timer of extension.ts.                                                  *)
(***************************************************************************)
MaxSessionCalls == 4
MaxSessionConnections == 5

SessionUrl == "api/contents/"

InitSession ==
    /\ CacheIdle
    /\ pendingRequests = <<>>
    /\ requestDelay = Ms(100)
    /\ lastRequestTime = 0
    /\ isConnected = FALSE
    /\ axiosInstance = 0
    /\ enableCaching = TRUE
    /\ callers = [c \in Callers |-> IdleCaller]
    /\ mq = <<>>
    /\ nCalls = 0
    /\ connCount = 0
    /\ FsIdle
    /\ lastConnection = FALSE
    /\ reconnectAttempts = 0
    /\ reconnectTimer = NoTimer
    /\ autoConnects = 0
    /\ budget = [calls |-> MaxSessionCalls, conns |-> MaxSessionConnections]

NextSession ==
    \/ getChildren(1, SessionUrl)
    \/ enforceRateLimit(1)
    \/ \E o \in Outcomes : RequestSettles(1, o)
    \/ ResumeOwn(1)
    \/ \E ar \in BOOLEAN : ResumeGetChildren(1, ar)
    \/ \E v \in BOOLEAN, ar \in BOOLEAN : connectCommand(v, ar)
    \/ \E ar \in BOOLEAN : reconnectTimerFires(ar)
    \/ \E ar \in BOOLEAN : overwrittenTimerFires(ar)
    \/ disconnectFromJupyter

SpecSession == InitSession /\ [][NextSession]_vars

(***************************************************************************)
(* SpecFs: one file-system operation (createDirectory, writeFile, delete,  *)
(* forceDelete) against a server that may answer, refuse or fail any       *)
(* request.                                                                *)
(***************************************************************************)
\* deleteFileWithRetry(itemPath, maxRetries = 3, ...)
DefaultMaxRetries == 3
\* forceDeleteRecursive(dirPath, maxAttempts = 5)
DefaultMaxAttempts == 5
\* forceDeleteRecursive(item.path, 3) for subdirectories
SubdirMaxAttempts == 3
\* deleteFileWithRetry(item.path, 5, 500) during a force delete
ForceMaxRetries == 5

\* uri.path of the operation: an API path, with or without a leading slash
UriPaths == Paths \cup {Slash \o p : p \in Paths}

\* the uri.path values forceDelete is called with
ForceUriPaths == Paths \cup {Slash \o PathS}

fsRest == <<cacheVars, pendingRequests, requestDelay, isConnected, axiosInstance,
            enableCaching, callers, mq, nCalls, connCount, restVars, extVars>>

Req(m, p) == [method |-> m, path |-> p]

\* how the server may answer GET api/contents/{p}: "ok" is a resolved
\* response (the entry, or a 404 body when there is none), "reject" a
\* response of status >= 500 or no response at all
GetResponses == {"ok", "reject"}

\* how the server may answer DELETE api/contents/{p}: "ok" removes the
\* entry (a file or an empty directory); "refused" is a 4xx answer, which
\* validateStatus lets resolve; "rejectNotEmpty" is a rejection whose message
\* has 'not empty'; "reject" any other rejection
DeleteResponses(t, p) ==
    {"refused", "reject"}
        \cup (IF p \in Dirs THEN {"rejectNotEmpty"} ELSE {})
        \cup (IF p \in t /\ ChildrenOf(t, p) = {} THEN {"ok"} ELSE {})

\* how the server may answer PUT api/contents/{p}
PutResponses(t, p) ==
    {"refused", "reject"}
        \cup (IF dirOf(p) = <<>> \/ dirOf(p) \in t THEN {"ok"} ELSE {})

Resolved(r) == r \in {"ok", "refused"}

TreeAfterDelete(t, p, r) == IF r = "ok" THEN t \ {p} ELSE t

TreeAfterPut(t, p, r) == IF r = "ok" THEN t \cup {p} ELSE t

\* the error a rejected DELETE carries
DeleteError(r) == IF r = "rejectNotEmpty" THEN "notEmpty" ELSE "other"

CountOf(reqs, m) == Len(SelectSeq(reqs, LAMBDA q : q.method = m))

\* the requests a step sends through axiosInstance; the request interceptor
\* (enforceRateLimit) stamps lastRequestTime
Issue(reqs) ==
    /\ nDelete' = Min(nDelete + CountOf(reqs, "DELETE"), CountCap)
    /\ nList' = Min(nList + CountOf(reqs, "LIST"), CountCap)
    /\ delIssued' = delIssued \cup
                      {reqs[i].path : i \in {j \in 1..Len(reqs) : reqs[j].method = "DELETE"}}
    /\ lastRequestTime' = IF reqs = <<>> THEN lastRequestTime ELSE now

\* a DELETE of path q got response r
Ack(q, r) ==
    targetAcked' = (targetAcked \/ (Resolved(r) /\ q = stripLeadingSlash(op.uri)))

\* the mutation of the pair of events: both for the path itself
ChangeEventsSelf(type, uri) ==
    <<[type |-> type, path |-> uri], [type |-> "Changed", path |-> uri]>>

\* _emitter.fire([{type, uri}]); _emitter.fire([{Changed, parentUri}]) with
\* parentUri = Uri.parse(`jupyter-remote:${extractParentPath(uri.path)}`)
ChangeEvents(type, uri) ==
    <<[type |-> type, path |-> uri],
      [type |-> "Changed", path |-> extractParentPath(uri)]>>

DdrTask == [IdleTask EXCEPT !.fn = "ddr", !.pc = "list"]

DfrTask(maxRetries) ==
    [IdleTask EXCEPT !.fn = "dfr", !.pc = "del", !.attempt = 1, !.max = maxRetries]

FdrTask(maxAttempts) ==
    [IdleTask EXCEPT !.fn = "fdr", !.pc = "list", !.attempt = 1, !.max = maxAttempts]

\* the activation has returned (res = "ok") or thrown (res = "err")
Done(t, res, err) ==
    [IdleTask EXCEPT !.fn = t.fn, !.pc = "done", !.res = res, !.err = err,
                     !.dirRejects = t.dirRejects]

\* s.includes(sub)
includes(s, sub) ==
    \E i \in 0..(Len(s) - Len(sub)) : SubSeq(s, i + 1, i + Len(sub)) = sub

\* `GET:api/contents/${path}`: getCacheKey of the URL the listing of (or the
\* read of) an API path is requested with, as a string
cacheKeyOf(path) ==
    <<"G", "E", "T", ":", "a", "p", "i", "/", "c", "o", "n", "t", "e", "n", "t", "s", "/">>
        \o path

\* key.split(':')[1] || ''
keyUrl(key) ==
    LET parts == {i \in 1..Len(key) : key[i] = ":"}
        first == CHOOSE i \in parts : \A j \in parts : i <= j
        rest == SubSeq(key, first + 1, Len(key))
        more == {i \in 1..Len(rest) : rest[i] = ":"}
        second == CHOOSE i \in more : \A j \in more : i <= j
    IN  IF parts = {} THEN <<>>
        ELSE IF more = {} THEN rest
        ELSE SubSeq(rest, 1, second - 1)

\* invalidateCacheForPath(path): the cache it leaves behind
invalidateCacheForPath(m, path) ==
    SelectSeq(m, LAMBDA e : ~(includes(e.key, path) \/ includes(path, keyUrl(e.key))))

\* the cache after the tree view has listed the root and every directory
WarmCache(t) ==
    LET dirs == SelectSeq(<<<<>>>> \o Universe,
                          LAMBDA d : d = <<>> \/ (d \in Dirs /\ d \in t))
    IN  [i \in 1..Len(dirs) |->
            [key |-> cacheKeyOf(dirs[i]), data |-> "listing", timestamp |-> 0]]

InitFs ==
    /\ cacheTimeout = 1
    /\ maxCacheSize = DefaultMaxCacheSize
    /\ now = 0
    /\ lastPut = NoCall
    /\ lastGet = NoCall
    /\ putKeys = <<>>
    /\ pendingRequests = <<>>
    /\ requestDelay = Ms(100)
    /\ lastRequestTime = 0
    /\ isConnected \in BOOLEAN
    /\ axiosInstance = (IF isConnected THEN 1 ELSE 0)
    /\ connCount = axiosInstance
    /\ enableCaching = TRUE
    /\ callers = [c \in Callers |-> IdleCaller]
    /\ mq = <<>>
    /\ nCalls = 0
    /\ lastConnection = (axiosInstance # 0)
    /\ reconnectAttempts = 0
    /\ reconnectTimer = NoTimer
    /\ autoConnects = 0
    /\ budget = [calls |-> MaxCalls, conns |-> MaxConnections]
    /\ move = NoMove
    /\ upload = NoUpload
    /\ norm = NoNorm
    /\ health = NoHealth
    /\ gate = <<>>
    /\ grants = <<>>
    /\ tree \in Trees
    /\ cache = (IF isConnected THEN WarmCache(tree) ELSE <<>>)
    /\ op = NoOp
    /\ task = [p \in Paths |-> IdleTask]
    /\ events = <<>>
    /\ nDelete = 0
    /\ nList = 0
    /\ delIssued = {}
    /\ targetAcked = FALSE
    /\ exhausted = {}
    /\ listed = [p \in Dirs |-> [seen |-> FALSE, contents |-> <<>>]]

\* an operation called while not connected throws at once
NotConnected(kind, uri) ==
    [NoOp EXCEPT !.kind = kind, !.uri = uri, !.pc = "done", !.res = "err",
                 !.err = "NotConnected"]

\* delete(uri, {recursive}) up to its first await: stat(uri)
delete(uri, recursive) ==
    /\ op.kind = "none"
    /\ IF ~isConnected \/ axiosInstance = 0
       THEN /\ op' = NotConnected("delete", uri)
            /\ Issue(<<>>)
       ELSE /\ op' = [NoOp EXCEPT !.kind = "delete", !.uri = uri, !.pc = "stat",
                                  !.recursive = recursive]
            /\ Issue(<<Req("GET", stripLeadingSlash(uri))>>)
    /\ UNCHANGED <<tree, task, events, targetAcked, exhausted, listed>>
    /\ UNCHANGED fsRest

\* forceDelete(uri) up to the first await of its delete(uri, {recursive: true})
forceDelete(uri) ==
    /\ op.kind = "none"
    /\ IF ~isConnected \/ axiosInstance = 0
       THEN /\ op' = NotConnected("forceDelete", uri)
            /\ Issue(<<>>)
       ELSE /\ op' = [NoOp EXCEPT !.kind = "forceDelete", !.uri = uri, !.pc = "stat",
                                  !.recursive = TRUE]
            /\ Issue(<<Req("GET", stripLeadingSlash(uri))>>)
    /\ UNCHANGED <<tree, task, events, targetAcked, exhausted, listed>>
    /\ UNCHANGED fsRest

\* createDirectory(uri) up to its PUT
createDirectory(uri) ==
    /\ op.kind = "none"
    /\ stripLeadingSlash(uri) \in Dirs
    /\ IF ~isConnected \/ axiosInstance = 0
       THEN /\ op' = NotConnected("createDirectory", uri)
            /\ Issue(<<>>)
       ELSE /\ op' = [NoOp EXCEPT !.kind = "createDirectory", !.uri = uri, !.pc = "put"]
            /\ Issue(<<Req("PUT", stripLeadingSlash(uri))>>)
    /\ UNCHANGED <<tree, task, events, targetAcked, exhausted, listed>>
    /\ UNCHANGED fsRest

\* writeFile(uri, content, {create}) up to the PUT of saveFileToJupyter
writeFile(uri, create) ==
    /\ op.kind = "none"
    /\ stripLeadingSlash(uri) \notin Dirs
    /\ IF ~isConnected \/ axiosInstance = 0
       THEN /\ op' = NotConnected("writeFile", uri)
            /\ Issue(<<>>)
       ELSE /\ op' = [NoOp EXCEPT !.kind = "writeFile", !.uri = uri, !.pc = "put",
                                  !.create = create]
            /\ Issue(<<Req("PUT", stripLeadingSlash(uri))>>)
    /\ UNCHANGED <<tree, task, events, targetAcked, exhausted, listed>>
    /\ UNCHANGED fsRest

\* the PUT of createDirectory settles: the two events on success, the
\* rejection rethrown as Unavailable
createDirectorySettles(r) ==
    /\ op.kind = "createDirectory"
    /\ op.pc = "put"
    /\ r \in PutResponses(tree, stripLeadingSlash(op.uri))
    /\ tree' = TreeAfterPut(tree, stripLeadingSlash(op.uri), r)
    /\ IF Resolved(r)
       THEN /\ events' = events \o ChangeEvents("Created", op.uri)
            /\ op' = [op EXCEPT !.pc = "done", !.res = "ok"]
       ELSE /\ UNCHANGED events
            /\ op' = [op EXCEPT !.pc = "done", !.res = "err", !.err = "Unavailable"]
    /\ Issue(<<>>)
    /\ UNCHANGED <<task, targetAcked, exhausted, listed>>
    /\ UNCHANGED fsRest

\* the PUT of saveFileToJupyter settles (invalidateCacheForPath when it
\* resolved, a failure is only shown) and writeFile fires its two events
writeFileSettles(r) ==
    /\ op.kind = "writeFile"
    /\ op.pc = "put"
    /\ r \in PutResponses(tree, stripLeadingSlash(op.uri))
    /\ tree' = TreeAfterPut(tree, stripLeadingSlash(op.uri), r)
    /\ events' = events \o
                   ChangeEvents(IF op.create THEN "Created" ELSE "Changed", op.uri)
    /\ op' = [op EXCEPT !.pc = "done", !.res = "ok"]
    /\ Issue(<<>>)
    /\ cache' = IF Resolved(r)
                THEN invalidateCacheForPath(cache, stripLeadingSlash(op.uri))
                ELSE cache
    /\ UNCHANGED <<task, targetAcked, exhausted, listed>>
    /\ UNCHANGED <<cacheTimeout, maxCacheSize, now, unitObs, pendingRequests, requestDelay,
                   isConnected, axiosInstance, enableCaching, callers, mq, nCalls,
                   connCount, restVars, extVars>>

\* delete() returns: the two events are fired (and forceDelete returns too)
deleteReturns(tk) ==
    /\ op' = [op EXCEPT !.pc = "done", !.res = "ok"]
    /\ task' = tk
    /\ events' = events \o ChangeEvents("Deleted", op.uri)
    /\ Issue(<<>>)

\* delete() throws Unavailable; forceDelete catches it and goes on to
\* forceDeleteRecursive(itemPath), which sends its first listing GET
deleteThrows(tk) ==
    /\ IF op.kind = "forceDelete"
       THEN /\ op' = [op EXCEPT !.pc = "force"]
            /\ task' = [tk EXCEPT ![stripLeadingSlash(op.uri)] =
                                      FdrTask(DefaultMaxAttempts)]
            /\ Issue(<<Req("LIST", stripLeadingSlash(op.uri))>>)
       ELSE /\ op' = [op EXCEPT !.pc = "done", !.res = "err", !.err = "Unavailable"]
            /\ task' = tk
            /\ Issue(<<>>)
    /\ UNCHANGED events

\* the GET of stat(uri) settles; a failure falls back to FileType.File
statSettles(r) ==
    /\ op.pc = "stat"
    /\ r \in GetResponses
    /\ LET itemPath == stripLeadingSlash(op.uri)
           isDirectory == r = "ok" /\ itemPath \in tree /\ itemPath \in Dirs
       IN  IF isDirectory /\ op.recursive
           THEN /\ op' = [op EXCEPT !.pc = "rec"]
                /\ task' = [task EXCEPT ![itemPath] = DdrTask]
                /\ Issue(<<Req("LIST", itemPath)>>)
           ELSE /\ op' = [op EXCEPT !.pc = "simple"]
                /\ UNCHANGED task
                /\ Issue(<<Req("DELETE", itemPath)>>)
    /\ UNCHANGED <<tree, events, targetAcked, exhausted, listed>>
    /\ UNCHANGED fsRest

\* stat(uri) called on its own, up to its GET
stat(uri) ==
    /\ op.kind = "none"
    /\ IF ~isConnected \/ axiosInstance = 0
       THEN /\ op' = NotConnected("stat", uri)
            /\ Issue(<<>>)
       ELSE /\ op' = [NoOp EXCEPT !.kind = "stat", !.uri = uri, !.pc = "get"]
            /\ Issue(<<Req("GET", stripLeadingSlash(uri))>>)
    /\ UNCHANGED <<tree, task, events, targetAcked, exhausted, listed>>
    /\ UNCHANGED fsRest

\* the GET of stat(uri) settles with outcome o: the response interceptor
\* runs, then the .then or the .catch handler of stat, which both return a
\* FileStat; op.err keeps the error code the .catch handler was given
statReturns(o) ==
    /\ op.kind = "stat"
    /\ op.pc = "get"
    /\ op' = [op EXCEPT !.pc = "done", !.res = "ok",
                        !.err = IF Resolves(o) THEN "" ELSE o.code]
    /\ requestDelay' = IF Resolves(o) THEN requestDelay
                       ELSE responseInterceptor(requestDelay, o)
    /\ Issue(<<>>)
    /\ UNCHANGED <<tree, task, events, targetAcked, exhausted, listed>>
    /\ UNCHANGED <<cacheVars, pendingRequests, isConnected, axiosInstance, enableCaching,
                   callers, mq, nCalls, connCount, restVars, extVars>>

\* the simple DELETE of delete() settles
simpleDeleteSettles(r) ==
    /\ op.pc = "simple"
    /\ r \in DeleteResponses(tree, stripLeadingSlash(op.uri))
    /\ tree' = TreeAfterDelete(tree, stripLeadingSlash(op.uri), r)
    /\ Ack(stripLeadingSlash(op.uri), r)
    /\ IF Resolved(r) THEN deleteReturns(task) ELSE deleteThrows(task)
    /\ UNCHANGED <<exhausted, listed>>
    /\ UNCHANGED fsRest

\* deleteDirectoryRecursive(itemPath) returns to, or throws into, delete()
recursiveReturns ==
    /\ op.pc = "rec"
    /\ task[stripLeadingSlash(op.uri)].pc = "done"
    /\ LET itemPath == stripLeadingSlash(op.uri)
           tk == [task EXCEPT ![itemPath] = IdleTask]
       IN  IF task[itemPath].res = "ok" THEN deleteReturns(tk) ELSE deleteThrows(tk)
    /\ UNCHANGED <<tree, targetAcked, exhausted, listed>>
    /\ UNCHANGED fsRest

\* forceDeleteRecursive(itemPath) returns to, or throws into, forceDelete()
forceReturns ==
    /\ op.pc = "force"
    /\ task[stripLeadingSlash(op.uri)].pc = "done"
    /\ task' = [task EXCEPT ![stripLeadingSlash(op.uri)] = IdleTask]
    /\ IF task[stripLeadingSlash(op.uri)].res = "ok"
       THEN /\ op' = [op EXCEPT !.pc = "done", !.res = "ok",
                                !.dirRejects = task[stripLeadingSlash(op.uri)].dirRejects]
            /\ events' = events \o ChangeEvents("Deleted", op.uri)
       ELSE /\ op' = [op EXCEPT !.pc = "done", !.res = "err", !.err = "Unavailable",
                                !.dirRejects = task[stripLeadingSlash(op.uri)].dirRejects]
            /\ UNCHANGED events
    /\ Issue(<<>>)
    /\ UNCHANGED <<tree, targetAcked, exhausted, listed>>
    /\ UNCHANGED fsRest

\* (mutant) deleteFileWithRetry giving up one attempt early
dfrSettlesGivesUpEarly(p, r) ==
    /\ task[p].fn = "dfr"
    /\ task[p].pc = "del"
    /\ r \in DeleteResponses(tree, p)
    /\ tree' = TreeAfterDelete(tree, p, r)
    /\ Ack(p, r)
    /\ IF Resolved(r)
       THEN /\ task' = [task EXCEPT ![p] = Done(@, "ok", "")]
            /\ Issue(<<>>)
            /\ UNCHANGED exhausted
       ELSE IF task[p].attempt + 1 >= task[p].max
            THEN /\ task' = [task EXCEPT ![p] = Done(@, "err", "exhausted")]
                 /\ exhausted' = exhausted \cup {p}
                 /\ Issue(<<>>)
            ELSE /\ task' = [task EXCEPT ![p].attempt = @ + 1]
                 /\ Issue(<<Req("DELETE", p)>>)
                 /\ UNCHANGED exhausted
    /\ UNCHANGED <<op, events, listed>>
    /\ UNCHANGED fsRest

\* deleteFileWithRetry: the DELETE of attempt k settles; a rejection is
\* followed by the delay and the next attempt, or by the throw after the last
dfrSettles(p, r) ==
    /\ task[p].fn = "dfr"
    /\ task[p].pc = "del"
    /\ r \in DeleteResponses(tree, p)
    /\ tree' = TreeAfterDelete(tree, p, r)
    /\ Ack(p, r)
    /\ IF Resolved(r)
       THEN /\ task' = [task EXCEPT ![p] = Done(@, "ok", "")]
            /\ Issue(<<>>)
            /\ UNCHANGED exhausted
       ELSE IF task[p].attempt = task[p].max
            THEN /\ task' = [task EXCEPT ![p] = Done(@, "err", "exhausted")]
                 /\ exhausted' = exhausted \cup {p}
                 /\ Issue(<<>>)
            ELSE /\ task' = [task EXCEPT ![p].attempt = @ + 1]
                 /\ Issue(<<Req("DELETE", p)>>)
                 /\ UNCHANGED exhausted
    /\ UNCHANGED <<op, events, listed>>
    /\ UNCHANGED fsRest

\* the requests of the empty-listing branch, mutated to repeat the DELETE
emptyBranchRequestsTwice(dirPath) ==
    <<Req("DELETE", dirPath), Req("DELETE", dirPath)>>

\* "if (contents.length === 0)": one DELETE of the directory
emptyBranchRequests(dirPath) == <<Req("DELETE", dirPath)>>

\* "for (const item of contents)" reaches item i: a subdirectory is
\* deleted recursively, a file with deleteFileWithRetry(item.path)
ddrForItem(tk, dirPath, i) ==
    LET item == tk[dirPath].contents[i]
    IN  IF item \in Dirs
        THEN [task |-> [tk EXCEPT ![dirPath].pc = "child", ![dirPath].idx = i,
                                  ![item] = DdrTask],
              reqs |-> <<Req("LIST", item)>>]
        ELSE [task |-> [tk EXCEPT ![dirPath].pc = "child", ![dirPath].idx = i,
                                  ![item] = DfrTask(DefaultMaxRetries)],
              reqs |-> <<Req("DELETE", item)>>]

\* "for (const item of remainingContents)" reaches item i, or ends with
\* the last DELETE of the directory
ddrRetryItem(tk, dirPath, i) ==
    IF i > Len(tk[dirPath].contents)
    THEN [task |-> [tk EXCEPT ![dirPath].pc = "delFinal"],
          reqs |-> <<Req("DELETE", dirPath)>>]
    ELSE LET item == tk[dirPath].contents[i]
         IN  IF item \in Dirs
             THEN [task |-> [tk EXCEPT ![dirPath].pc = "retryChild",
                                       ![dirPath].idx = i, ![item] = DdrTask],
                   reqs |-> <<Req("LIST", item)>>]
             ELSE [task |-> [tk EXCEPT ![dirPath].pc = "retryFile",
                                       ![dirPath].idx = i],
                   reqs |-> <<Req("DELETE", item)>>]

\* deleteDirectoryRecursive: the listing GET settles
ddrListed(p, r) ==
    /\ task[p].fn = "ddr"
    /\ task[p].pc = "list"
    /\ r \in GetResponses
    /\ IF r = "reject"
       THEN /\ task' = [task EXCEPT ![p] = Done(@, "err", "other")]
            /\ Issue(<<>>)
            /\ UNCHANGED listed
       ELSE LET contents == ListOf(tree, p)
                tk == [task EXCEPT ![p].contents = contents]
            IN  /\ listed' = IF listed[p].seen THEN listed
                             ELSE [listed EXCEPT ![p] =
                                      [seen |-> TRUE, contents |-> contents]]
                /\ IF Len(contents) = 0
                   THEN /\ task' = [tk EXCEPT ![p].pc = "delEmpty"]
                        /\ Issue(emptyBranchRequests(p))
                   ELSE /\ task' = ddrForItem(tk, p, 1).task
                        /\ Issue(ddrForItem(tk, p, 1).reqs)
    /\ UNCHANGED <<tree, op, events, targetAcked, exhausted>>
    /\ UNCHANGED fsRest

\* deleteDirectoryRecursive: the DELETE of the empty directory settles
ddrEmptyDeleted(p, r) ==
    /\ task[p].fn = "ddr"
    /\ task[p].pc = "delEmpty"
    /\ r \in DeleteResponses(tree, p)
    /\ tree' = TreeAfterDelete(tree, p, r)
    /\ Ack(p, r)
    /\ task' = [task EXCEPT ![p] = IF Resolved(r) THEN Done(@, "ok", "")
                                   ELSE Done(@, "err", DeleteError(r))]
    /\ Issue(<<>>)
    /\ UNCHANGED <<op, events, exhausted, listed>>
    /\ UNCHANGED fsRest

\* (mutant) the loop over the contents ends after its first item
ddrChildReturnsSkipsRest(p) ==
    /\ task[p].fn = "ddr"
    /\ task[p].pc = "child"
    /\ task[task[p].contents[task[p].idx]].pc = "done"
    /\ LET item == task[p].contents[task[p].idx]
           tk == [task EXCEPT ![item] = IdleTask]
       IN  IF task[item].res = "err"
           THEN /\ task' = [tk EXCEPT ![p] = Done(@, "err", task[item].err)]
                /\ Issue(<<>>)
           ELSE IF task[p].idx < Len(task[p].contents) /\ FALSE
                THEN /\ task' = ddrForItem(tk, p, task[p].idx + 1).task
                     /\ Issue(ddrForItem(tk, p, task[p].idx + 1).reqs)
                ELSE /\ task' = [tk EXCEPT ![p].pc = "delDir"]
                     /\ Issue(<<Req("DELETE", p)>>)
    /\ UNCHANGED <<tree, op, events, targetAcked, exhausted, listed>>
    /\ UNCHANGED fsRest

\* deleteDirectoryRecursive: the awaited call for item idx returns or
\* throws; nothing catches the throw inside the loop
ddrChildReturns(p) ==
    /\ task[p].fn = "ddr"
    /\ task[p].pc = "child"
    /\ task[task[p].contents[task[p].idx]].pc = "done"
    /\ LET item == task[p].contents[task[p].idx]
           tk == [task EXCEPT ![item] = IdleTask]
       IN  IF task[item].res = "err"
           THEN /\ task' = [tk EXCEPT ![p] = Done(@, "err", task[item].err)]
                /\ Issue(<<>>)
           ELSE IF task[p].idx < Len(task[p].contents)
                THEN /\ task' = ddrForItem(tk, p, task[p].idx + 1).task
                     /\ Issue(ddrForItem(tk, p, task[p].idx + 1).reqs)
                ELSE /\ task' = [tk EXCEPT ![p].pc = "delDir"]
                     /\ Issue(<<Req("DELETE", p)>>)
    /\ UNCHANGED <<tree, op, events, targetAcked, exhausted, listed>>
    /\ UNCHANGED fsRest

\* deleteDirectoryRecursive: the DELETE of the directory after the loop
\* settles; a 'not empty' rejection leads to a second listing
ddrDirDeleted(p, r) ==
    /\ task[p].fn = "ddr"
    /\ task[p].pc = "delDir"
    /\ r \in DeleteResponses(tree, p)
    /\ tree' = TreeAfterDelete(tree, p, r)
    /\ Ack(p, r)
    /\ IF Resolved(r)
       THEN /\ task' = [task EXCEPT ![p] = Done(@, "ok", "")]
            /\ Issue(<<>>)
       ELSE IF r = "rejectNotEmpty"
            THEN /\ task' = [task EXCEPT ![p].pc = "relist"]
                 /\ Issue(<<Req("LIST", p)>>)
            ELSE /\ task' = [task EXCEPT ![p] = Done(@, "err", "other")]
                 /\ Issue(<<>>)
    /\ UNCHANGED <<op, events, exhausted, listed>>
    /\ UNCHANGED fsRest

\* deleteDirectoryRecursive: the second listing settles
ddrRelisted(p, r) ==
    /\ task[p].fn = "ddr"
    /\ task[p].pc = "relist"
    /\ r \in GetResponses
    /\ IF r = "reject"
       THEN /\ task' = [task EXCEPT ![p] = Done(@, "err", "notEmpty")]
            /\ Issue(<<>>)
       ELSE LET tk == [task EXCEPT ![p].contents = ListOf(tree, p)]
            IN  /\ task' = ddrRetryItem(tk, p, 1).task
                /\ Issue(ddrRetryItem(tk, p, 1).reqs)
    /\ UNCHANGED <<tree, op, events, targetAcked, exhausted, listed>>
    /\ UNCHANGED fsRest

\* deleteDirectoryRecursive: the retried subdirectory returns or throws
\* (the throw is caught and logged)
ddrRetryChildReturns(p) ==
    /\ task[p].fn = "ddr"
    /\ task[p].pc = "retryChild"
    /\ task[task[p].contents[task[p].idx]].pc = "done"
    /\ LET item == task[p].contents[task[p].idx]
           tk == [task EXCEPT ![item] = IdleTask]
       IN  /\ task' = ddrRetryItem(tk, p, task[p].idx + 1).task
           /\ Issue(ddrRetryItem(tk, p, task[p].idx + 1).reqs)
    /\ UNCHANGED <<tree, op, events, targetAcked, exhausted, listed>>
    /\ UNCHANGED fsRest

\* deleteDirectoryRecursive: the retried DELETE of a remaining file settles
\* (a rejection is caught and logged)
ddrRetryFileSettles(p, r) ==
    /\ task[p].fn = "ddr"
    /\ task[p].pc = "retryFile"
    /\ r \in DeleteResponses(tree, task[p].contents[task[p].idx])
    /\ tree' = TreeAfterDelete(tree, task[p].contents[task[p].idx], r)
    /\ Ack(task[p].contents[task[p].idx], r)
    /\ task' = ddrRetryItem(task, p, task[p].idx + 1).task
    /\ Issue(ddrRetryItem(task, p, task[p].idx + 1).reqs)
    /\ UNCHANGED <<op, events, exhausted, listed>>
    /\ UNCHANGED fsRest

\* ddrFinalDeleted with the recovery repeated for as long as the directory
\* is reported as not empty
ddrFinalDeletedChecksAgain(p, r) ==
    /\ task[p].fn = "ddr"
    /\ task[p].pc = "delFinal"
    /\ r \in DeleteResponses(tree, p)
    /\ tree' = TreeAfterDelete(tree, p, r)
    /\ Ack(p, r)
    /\ IF r = "rejectNotEmpty"
       THEN /\ task' = [task EXCEPT ![p].pc = "relist"]
            /\ Issue(<<Req("LIST", p)>>)
       ELSE /\ task' = [task EXCEPT ![p] = IF Resolved(r) THEN Done(@, "ok", "")
                                          ELSE Done(@, "err", "notEmpty")]
            /\ Issue(<<>>)
    /\ UNCHANGED <<op, events, exhausted, listed>>
    /\ UNCHANGED fsRest

\* deleteDirectoryRecursive: the last DELETE of the directory settles; a
\* rejection rethrows the first 'not empty' error
ddrFinalDeleted(p, r) ==
    /\ task[p].fn = "ddr"
    /\ task[p].pc = "delFinal"
    /\ r \in DeleteResponses(tree, p)
    /\ tree' = TreeAfterDelete(tree, p, r)
    /\ Ack(p, r)
    /\ task' = [task EXCEPT ![p] = IF Resolved(r) THEN Done(@, "ok", "")
                                   ELSE Done(@, "err", "notEmpty")]
    /\ Issue(<<>>)
    /\ UNCHANGED <<op, events, exhausted, listed>>
    /\ UNCHANGED fsRest

\* forceDeleteRecursive: the outer catch of round attempt: the terminal
\* error after the last round, else the longer delay and the next round
fdrCatch(tk, p) ==
    IF tk[p].attempt = tk[p].max
    THEN [task |-> [tk EXCEPT ![p] = Done(@, "err", "forceFailed")],
          reqs |-> <<>>]
    ELSE [task |-> [tk EXCEPT ![p].attempt = @ + 1, ![p].pc = "list",
                              ![p].contents = <<>>],
          reqs |-> <<Req("LIST", p)>>]

\* forceDeleteRecursive: contents.map(async item => ...) starts the
\* deletion of every item at once
fdrSpawn(tk, p, contents) ==
    [task |-> [q \in Paths |->
                  IF q = p THEN [tk[p] EXCEPT !.pc = "children", !.contents = contents]
                  ELSE IF \E i \in 1..Len(contents) : contents[i] = q
                       THEN IF q \in Dirs THEN FdrTask(SubdirMaxAttempts)
                                          ELSE DfrTask(ForceMaxRetries)
                       ELSE tk[q]],
     reqs |-> [i \in 1..Len(contents) |->
                  IF contents[i] \in Dirs THEN Req("LIST", contents[i])
                                          ELSE Req("DELETE", contents[i])]]

\* forceDeleteRecursive: the listing GET of a round settles.  The content
\* of a file is text, on which contents.map throws into the outer catch
fdrListed(p, r) ==
    /\ task[p].fn = "fdr"
    /\ task[p].pc = "list"
    /\ r \in GetResponses
    /\ LET contents == ListOf(tree, p)
           n == IF r = "reject" \/ (p \in tree /\ p \notin Dirs)
                THEN fdrCatch(task, p)
                ELSE IF Len(contents) = 0
                     THEN [task |-> [task EXCEPT ![p].pc = "delEmpty"],
                           reqs |-> <<Req("DELETE", p)>>]
                     ELSE fdrSpawn(task, p, contents)
       IN  /\ task' = n.task
           /\ Issue(n.reqs)
    /\ UNCHANGED <<tree, op, events, targetAcked, exhausted, listed>>
    /\ UNCHANGED fsRest

\* forceDeleteRecursive: the DELETE of the empty directory settles
fdrEmptyDeleted(p, r) ==
    /\ task[p].fn = "fdr"
    /\ task[p].pc = "delEmpty"
    /\ r \in DeleteResponses(tree, p)
    /\ tree' = TreeAfterDelete(tree, p, r)
    /\ Ack(p, r)
    /\ LET n == IF Resolved(r)
                THEN [task |-> [task EXCEPT ![p] = Done(@, "ok", "")], reqs |-> <<>>]
                ELSE fdrCatch(task, p)
       IN  /\ task' = n.task
           /\ Issue(n.reqs)
    /\ UNCHANGED <<op, events, exhausted, listed>>
    /\ UNCHANGED fsRest

\* (mutant) the directory DELETE is sent as soon as one item has settled
fdrChildrenDoneAny(p) ==
    /\ task[p].fn = "fdr"
    /\ task[p].pc = "children"
    /\ \E i \in 1..Len(task[p].contents) : task[task[p].contents[i]].pc = "done"
    /\ task' = [q \in Paths |->
                  IF q = p THEN [task[p] EXCEPT !.pc = "delDir"]
                  ELSE IF \E i \in 1..Len(task[p].contents) : task[p].contents[i] = q
                       THEN IdleTask
                       ELSE task[q]]
    /\ Issue(<<Req("DELETE", p)>>)
    /\ UNCHANGED <<tree, op, events, targetAcked, exhausted, listed>>
    /\ UNCHANGED fsRest

\* forceDeleteRecursive: Promise.all is over (every item returned or
\* threw, which is ignored), the delay passes, the directory DELETE is sent
fdrChildrenDone(p) ==
    /\ task[p].fn = "fdr"
    /\ task[p].pc = "children"
    /\ \A i \in 1..Len(task[p].contents) : task[task[p].contents[i]].pc = "done"
    /\ task' = [q \in Paths |->
                  IF q = p THEN [task[p] EXCEPT !.pc = "delDir"]
                  ELSE IF \E i \in 1..Len(task[p].contents) : task[p].contents[i] = q
                       THEN IdleTask
                       ELSE task[q]]
    /\ Issue(<<Req("DELETE", p)>>)
    /\ UNCHANGED <<tree, op, events, targetAcked, exhausted, listed>>
    /\ UNCHANGED fsRest

\* forceDeleteRecursive: the directory DELETE of a round settles; its
\* rejection is caught and logged, and the loop goes to the next round or,
\* after the last one, ends: the function returns
fdrDirDeleted(p, r) ==
    /\ task[p].fn = "fdr"
    /\ task[p].pc = "delDir"
    /\ r \in DeleteResponses(tree, p)
    /\ tree' = TreeAfterDelete(tree, p, r)
    /\ Ack(p, r)
    /\ IF Resolved(r)
       THEN /\ task' = [task EXCEPT ![p] = Done(@, "ok", "")]
            /\ Issue(<<>>)
       ELSE IF task[p].attempt < task[p].max
            THEN /\ task' = [task EXCEPT ![p].attempt = @ + 1, ![p].pc = "list",
                                         ![p].contents = <<>>,
                                         ![p].dirRejects = @ + 1]
                 /\ Issue(<<Req("LIST", p)>>)
            ELSE /\ task' = [task EXCEPT ![p] =
                                Done([@ EXCEPT !.dirRejects = @ + 1], "ok", "")]
                 /\ Issue(<<>>)
    /\ UNCHANGED <<op, events, exhausted, listed>>
    /\ UNCHANGED fsRest

NextFs ==
    \/ \E uri \in UriPaths, recursive \in BOOLEAN : delete(uri, recursive)
    \/ \E uri \in ForceUriPaths : forceDelete(uri)
    \/ \E uri \in UriPaths : createDirectory(uri)
    \/ \E uri \in UriPaths, create \in BOOLEAN : writeFile(uri, create)
    \/ \E r \in {"ok", "refused", "reject"} : createDirectorySettles(r)
    \/ \E r \in {"ok", "refused", "reject"} : writeFileSettles(r)
    \/ \E r \in GetResponses : statSettles(r)
    \/ \E uri \in UriPaths : stat(uri)
    \/ \E o \in Outcomes : statReturns(o)
    \/ \E r \in {"ok", "refused", "rejectNotEmpty", "reject"} : simpleDeleteSettles(r)
    \/ recursiveReturns
    \/ forceReturns
    \/ \E p \in Paths, r \in {"ok", "refused", "rejectNotEmpty", "reject"} :
          \/ dfrSettles(p, r)
          \/ ddrEmptyDeleted(p, r)
          \/ ddrDirDeleted(p, r)
          \/ ddrRetryFileSettles(p, r)
          \/ ddrFinalDeleted(p, r)
          \/ fdrEmptyDeleted(p, r)
          \/ fdrDirDeleted(p, r)
    \/ \E p \in Paths, r \in GetResponses :
          \/ ddrListed(p, r)
          \/ ddrRelisted(p, r)
          \/ fdrListed(p, r)
    \/ \E p \in Paths :
          \/ ddrChildReturns(p)
          \/ ddrRetryChildReturns(p)
          \/ fdrChildrenDone(p)

SpecFs == InitFs /\ [][NextFs]_vars

(***************************************************************************)
(* SpecDelete: delete(uri, options) alone, on a connected provider, with   *)
(* the scheduling of the event loop: a request that was sent is answered   *)
(* or times out (axios timeout 30000) and a continuation that is ready     *)
(* runs, so a step that can be taken is taken in the end.                  *)
(***************************************************************************)
InitDelete == InitFs /\ isConnected

NextDelete ==
    \/ \E uri \in UriPaths, recursive \in BOOLEAN : delete(uri, recursive)
    \/ \E r \in GetResponses : statSettles(r)
    \/ \E r \in {"ok", "refused", "rejectNotEmpty", "reject"} : simpleDeleteSettles(r)
    \/ recursiveReturns
    \/ \E p \in Paths, r \in {"ok", "refused", "rejectNotEmpty", "reject"} :
          \/ dfrSettles(p, r)
          \/ ddrEmptyDeleted(p, r)
          \/ ddrDirDeleted(p, r)
          \/ ddrRetryFileSettles(p, r)
          \/ ddrFinalDeleted(p, r)
    \/ \E p \in Paths, r \in GetResponses :
          \/ ddrListed(p, r)
          \/ ddrRelisted(p, r)
    \/ \E p \in Paths :
          \/ ddrChildReturns(p)
          \/ ddrRetryChildReturns(p)

SpecDelete == InitDelete /\ [][NextDelete]_vars /\ WF_vars(NextDelete)

(***************************************************************************)
(* SpecMove: one drop of dragged tree items onto a target of the tree.     *)
(***************************************************************************)
\* the FileItems of the tree: label, collapsible, uri (item.path of the API)
FileItems ==
    {[label |-> <<"a">>, collapsible |-> TRUE, uri |-> <<"a">>],
     [label |-> <<"s">>, collapsible |-> TRUE, uri |-> <<"a", "/", "s">>],
     [label |-> <<"f">>, collapsible |-> FALSE, uri |-> <<"a", "/", "f">>],
     [label |-> <<"a", "b">>, collapsible |-> TRUE, uri |-> <<"a", "b">>]}

\* the batches of dragged items: up to MaxBatch of the FileItems
Batches == UNION {[1..n -> FileItems] : n \in 0..MaxBatch}

\* remotePath after setConnection
RemotePath == Slash

\* the statuses a PATCH may end with (0: no response at all)
PatchStatuses == {200, 404, 409, 500, 0}

\* s.replace('//', '/'): the first occurrence only
replaceDoubleSlash(s) ==
    IF \E i \in 1..(Len(s) - 1) : s[i] = "/" /\ s[i + 1] = "/"
    THEN LET i == CHOOSE j \in 1..(Len(s) - 1) :
                      /\ s[j] = "/" /\ s[j + 1] = "/"
                      /\ \A k \in 1..(j - 1) : ~(s[k] = "/" /\ s[k + 1] = "/")
         IN  SubSeq(s, 1, i) \o SubSeq(s, i + 2, Len(s))
    ELSE s

\* the guard, mutated to let a drop of a directory onto itself through
selfContainedStrict(sourceItem, targetPath) ==
    /\ sourceItem.collapsible
    /\ targetPath # sourceItem.uri
    /\ startsWith(targetPath, sourceItem.uri)

\* "sourceItem.collapsible && targetPath.startsWith(sourceItem.uri)"
selfContained(sourceItem, targetPath) ==
    sourceItem.collapsible /\ startsWith(targetPath, sourceItem.uri)

\* the loop "for (const sourceItem of sourceItems)" from item i up to the
\* next await (the PATCH of moveItem) or, past the last item, to refresh()
RECURSIVE moveLoop(_, _)
moveLoop(m, i) ==
    IF i > Len(m.items)
    THEN [m EXCEPT !.pc = "done", !.idx = i, !.refreshes = @ + 1]
    ELSE LET sourceItem == m.items[i]
             sourceParent == extractParentPath(sourceItem.uri)
             newPath == replaceDoubleSlash(m.targetPath \o Slash \o sourceItem.label)
         IN  IF sourceParent = m.targetPath
             THEN moveLoop([m EXCEPT !.results = Append(@, "skipped")], i + 1)
             ELSE IF selfContained(sourceItem, m.targetPath)
             THEN moveLoop([m EXCEPT !.errorCount = @ + 1,
                                     !.results = Append(@, "rejected")], i + 1)
             ELSE IF axiosInstance = 0
             THEN moveLoop([m EXCEPT !.errorCount = @ + 1,
                                     !.results = Append(@, "failed")], i + 1)
             ELSE [m EXCEPT !.pc = "patch", !.idx = i,
                            !.patches = Append(@,
                                [source |-> stripLeadingSlash(sourceItem.uri),
                                 target |-> stripLeadingSlash(newPath)])]

InitMove ==
    /\ CacheIdle
    /\ pendingRequests = <<>>
    /\ requestDelay = Ms(100)
    /\ lastRequestTime = 0
    \* never connected or disconnected; connected; or the connection was
    \* detected lost (handleConnectionLoss leaves the axios instance in place)
    /\ axiosInstance \in {0, 1}
    /\ isConnected \in BOOLEAN
    /\ isConnected => axiosInstance = 1
    /\ connCount = axiosInstance
    /\ enableCaching = TRUE
    /\ callers = [c \in Callers |-> IdleCaller]
    /\ mq = <<>>
    /\ nCalls = 0
    /\ lastConnection = (axiosInstance # 0)
    /\ reconnectAttempts = 0
    /\ reconnectTimer = NoTimer
    /\ autoConnects = 0
    /\ budget = [calls |-> MaxCalls, conns |-> MaxConnections]
    /\ FsIdle

moveRest == <<cacheTimeout, maxCacheSize, now, unitObs, requestDelay, isConnected,
              axiosInstance, enableCaching, callers, mq, nCalls, connCount, fsVars, extVars,
              uploadVars, gateVars, pathVars, healthVars>>

\* what a step of handleInternalMove leaves behind: the PATCH it sent
\* passed the request interceptor, and refresh() at the end clears the cache
moveStep(m) ==
    /\ move' = m
    /\ lastRequestTime' = IF m.pc = "patch" THEN now ELSE lastRequestTime
    /\ IF m.refreshes > move.refreshes
       THEN clearCache
       ELSE UNCHANGED <<cache, pendingRequests>>
    /\ UNCHANGED moveRest

\* handleInternalMove(transferItem, target) up to its first await; target
\* is a FileItem, or undefined for a drop on the empty space
handleInternalMove(sourceItems, hasTarget, target) ==
    /\ move.pc = "idle"
    /\ IF Len(sourceItems) = 0
       THEN moveStep([move EXCEPT !.pc = "done"])
       ELSE LET targetPath == IF hasTarget
                              THEN IF target.collapsible THEN target.uri
                                   ELSE extractParentPath(target.uri)
                              ELSE RemotePath
            IN  moveStep(moveLoop([move EXCEPT !.items = sourceItems,
                                               !.targetPath = targetPath], 1))

\* (mutant) a rejected PATCH ends the loop: the items after it are dropped
patchSettlesAborting(status) ==
    /\ move.pc = "patch"
    /\ status \in PatchStatuses
    /\ IF status # 0 /\ validateStatus(status)
       THEN moveStep(moveLoop([move EXCEPT !.successCount = @ + 1,
                                           !.answers = Append(@, status),
                                           !.results = Append(@, "moved")],
                              move.idx + 1))
       ELSE moveStep([move EXCEPT !.errorCount = @ + 1,
                                  !.answers = Append(@, status),
                                  !.results = Append(@, "failed"),
                                  !.pc = "done", !.refreshes = @ + 1])

\* the PATCH of moveItem settles: a resolved response counts as a success,
\* a rejection is rethrown by moveItem and counted as an error
patchSettles(status) ==
    /\ move.pc = "patch"
    /\ status \in PatchStatuses
    /\ IF status # 0 /\ validateStatus(status)
       THEN moveStep(moveLoop([move EXCEPT !.successCount = @ + 1,
                                           !.answers = Append(@, status),
                                           !.results = Append(@, "moved")],
                              move.idx + 1))
       ELSE moveStep(moveLoop([move EXCEPT !.errorCount = @ + 1,
                                           !.answers = Append(@, status),
                                           !.results = Append(@, "failed")],
                              move.idx + 1))

NextMove ==
    \/ \E sourceItems \in Batches, hasTarget \in BOOLEAN, target \in FileItems :
          handleInternalMove(sourceItems, hasTarget, target)
    \/ \E status \in PatchStatuses : patchSettles(status)

SpecMove == InitMove /\ [][NextMove]_vars

(***************************************************************************)
(* SpecUpload: one upload of local files and folders: the upload commands  *)
(* uploadFile and uploadFolder, and a drop of local items on the tree.     *)
(***************************************************************************)
MaxUpload == 2

\* local files and folders (fs.Dirent: name, isDirectory, and for a folder
\* what readdir returns)
LocalFile(name) == [name |-> name, isDirectory |-> FALSE, entries |-> <<>>]

LocalFiles == {LocalFile(<<"f">>), LocalFile(<<"g">>)}

LocalFolders ==
    {[name |-> <<"F">>, isDirectory |-> TRUE,
      entries |-> <<LocalFile(<<"p">>), LocalFile(<<"q">>)>>],
     [name |-> <<"G">>, isDirectory |-> TRUE,
      entries |-> <<[name |-> <<"H">>, isDirectory |-> TRUE,
                     entries |-> <<LocalFile(<<"r">>)>>],
                    LocalFile(<<"t">>)>>]}

\* the selections of the open dialog, or the dropped items
Selections(S) == UNION {[1..n -> S] : n \in 0..MaxUpload}

\* the statuses a PUT may end with (0: no response at all)
PutStatuses == {201, 400, 500, 0}

\* `${remotePath}/${name}`.replace('//', '/')
childPath(remotePath, name) == replaceDoubleSlash(remotePath \o Slash \o name)

\* uploadSingleFile(localFilePath, remotePath): the path it PUTs
uploadSingleFile(entry, remotePath) ==
    <<stripLeadingSlash(childPath(remotePath, entry.name))>>

\* uploadFolderRecursive(localFolderPath, remotePath): the paths it PUTs, in
\* order, when no request fails: the directory, then entry by entry
RECURSIVE uploadFolderRecursive(_, _, _)
uploadFolderRecursive(entries, k, remotePath) ==
    IF k = 0 THEN <<stripLeadingSlash(remotePath)>> \o uploadFolderRecursive(entries, 1, remotePath)
    ELSE IF k > Len(entries) THEN <<>>
    ELSE (IF entries[k].isDirectory
          THEN uploadFolderRecursive(entries[k].entries, 0,
                                     childPath(remotePath, entries[k].name))
          ELSE uploadSingleFile(entries[k], remotePath))
         \o uploadFolderRecursive(entries, k + 1, remotePath)

\* the requests of one item of the batch
ItemPlan(item) ==
    IF item.isDirectory
    THEN uploadFolderRecursive(item.entries, 0, childPath(RemotePath, item.name))
    ELSE uploadSingleFile(item, RemotePath)

\* the loop over the selected items from item i up to the next await (a
\* PUT) or, past the last item, to refresh() and the summary messages
RECURSIVE uploadLoop(_, _)

\* the catch block around one item: uploadFile calls handleApiError, which
\* always throws (its return type is never), so "errorCount++" is not
\* reached and the rejection leaves uploadFile; uploadFolder and
\* handleExternalFileUpload count the error and go on
itemFails(u) ==
    IF u.mode = "uploadFile"
    THEN [u EXCEPT !.pc = "done", !.plan = <<>>, !.threw = TRUE]
    ELSE uploadLoop([u EXCEPT !.errorCount = @ + 1, !.plan = <<>>], u.idx + 1)

uploadLoop(u, i) ==
    IF i > Len(u.items)
    THEN [u EXCEPT !.pc = "done", !.idx = i, !.refreshes = @ + 1,
                   !.warnings = @ + (IF u.errorCount > 0 THEN 1 ELSE 0)]
    ELSE IF axiosInstance = 0
    THEN itemFails([u EXCEPT !.idx = i])
    ELSE LET plan == ItemPlan(u.items[i])
         IN  [u EXCEPT !.pc = "put", !.idx = i, !.plan = plan,
                       !.sent = Append(@, Head(plan))]

InitUpload ==
    /\ CacheIdle
    /\ pendingRequests = <<>>
    /\ requestDelay = Ms(100)
    /\ lastRequestTime = 0
    /\ axiosInstance \in {0, 1}
    /\ isConnected \in BOOLEAN
    /\ isConnected => axiosInstance = 1
    /\ connCount = axiosInstance
    /\ enableCaching = TRUE
    /\ callers = [c \in Callers |-> IdleCaller]
    /\ mq = <<>>
    /\ nCalls = 0
    /\ lastConnection = (axiosInstance # 0)
    /\ reconnectAttempts = 0
    /\ reconnectTimer = NoTimer
    /\ autoConnects = 0
    /\ budget = [calls |-> MaxCalls, conns |-> MaxConnections]
    /\ FsIdle

uploadRest == <<cacheTimeout, maxCacheSize, now, unitObs, requestDelay, isConnected,
                axiosInstance, enableCaching, callers, mq, nCalls, connCount, fsVars,
                extVars, moveVars, gateVars, pathVars,
                healthVars>>

\* what a step of an upload leaves behind: the PUT it sent passed the
\* request interceptor, and refresh() at the end clears the cache
uploadStep(u) ==
    /\ upload' = u
    /\ lastRequestTime' = IF u.pc = "put" THEN now ELSE lastRequestTime
    /\ IF u.refreshes > upload.refreshes
       THEN clearCache
       ELSE UNCHANGED <<cache, pendingRequests>>
    /\ UNCHANGED uploadRest

\* uploadFile(targetDirectory) with the files picked in the open dialog
uploadFile(fileUris) ==
    /\ upload.pc = "idle"
    /\ IF ~(isConnected /\ axiosInstance # 0) \/ Len(fileUris) = 0
       THEN uploadStep([upload EXCEPT !.pc = "done", !.mode = "uploadFile"])
       ELSE uploadStep(uploadLoop([upload EXCEPT !.mode = "uploadFile",
                                                 !.items = fileUris], 1))

\* uploadFolder(targetDirectory) with the folders picked in the open dialog
uploadFolder(folderUris) ==
    /\ upload.pc = "idle"
    /\ IF ~(isConnected /\ axiosInstance # 0) \/ Len(folderUris) = 0
       THEN uploadStep([upload EXCEPT !.pc = "done", !.mode = "uploadFolder"])
       ELSE uploadStep(uploadLoop([upload EXCEPT !.mode = "uploadFolder",
                                                 !.items = folderUris], 1))

\* handleExternalFileUpload(uriListTransfer, target): local items dropped
\* on the empty space of the tree
handleExternalFileUpload(uris) ==
    /\ upload.pc = "idle"
    /\ IF Len(uris) = 0
       THEN uploadStep([upload EXCEPT !.pc = "done", !.mode = "drop"])
       ELSE uploadStep(uploadLoop([upload EXCEPT !.mode = "drop", !.items = uris], 1))

\* (mutant) a rejected PUT does not stop the item: its next request is sent
putSettlesGoesOn(status) ==
    /\ upload.pc = "put"
    /\ LET u == IF status # 0 /\ validateStatus(status)
                THEN [upload EXCEPT !.resolved = @ \cup {Head(upload.plan)}]
                ELSE upload
       IN  IF Len(upload.plan) > 1
           THEN uploadStep([u EXCEPT !.plan = Tail(@),
                                    !.sent = Append(@, upload.plan[2])])
           ELSE uploadStep(uploadLoop([u EXCEPT !.successCount = @ + 1,
                                               !.plan = <<>>],
                                      upload.idx + 1))

\* the PUT in flight settles: resolved, the item goes on with its next
\* request or is counted as a success; rejected, the error is rethrown up to
\* the catch block around the item
putSettles(status) ==
    /\ upload.pc = "put"
    /\ IF status # 0 /\ validateStatus(status)
       THEN LET u == [upload EXCEPT !.resolved = @ \cup {Head(upload.plan)}]
            IN  IF Len(upload.plan) > 1
                THEN uploadStep([u EXCEPT !.plan = Tail(@),
                                         !.sent = Append(@, upload.plan[2])])
                ELSE uploadStep(uploadLoop([u EXCEPT !.successCount = @ + 1,
                                                    !.plan = <<>>],
                                           upload.idx + 1))
       ELSE uploadStep(itemFails(upload))

NextUpload ==
    \/ \E fileUris \in Selections(LocalFiles) : uploadFile(fileUris)
    \/ \E folderUris \in Selections(LocalFolders) : uploadFolder(folderUris)
    \/ \E uris \in Selections(LocalFiles \cup LocalFolders) : handleExternalFileUpload(uris)
    \/ \E status \in PutStatuses : putSettles(status)

SpecUpload == InitUpload /\ [][NextUpload]_vars

(***************************************************************************)
(* SpecBinary: the request data uploadSingleFile builds for a local file.  *)
(***************************************************************************)
UpperCase == <<"A", "B", "C", "D", "E", "F", "G", "H", "I", "J", "K", "L", "M", "N", "O", "P", "Q", "R", "S", "T", "U", "V", "W", "X", "Y", "Z">>

LowerCase == <<"a", "b", "c", "d", "e", "f", "g", "h", "i", "j", "k", "l", "m", "n", "o", "p", "q", "r", "s", "t", "u", "v", "w", "x", "y", "z">>

\* s.toLowerCase(), for ASCII letters
toLowerCase(s) ==
    [i \in 1..Len(s) |->
        IF \E k \in 1..Len(UpperCase) : UpperCase[k] = s[i]
        THEN LowerCase[CHOOSE k \in 1..Len(UpperCase) : UpperCase[k] = s[i]]
        ELSE s[i]]

\* path.basename(p)
basename(p) ==
    LET slashes == {i \in 1..Len(p) : p[i] = "/"}
        last == CHOOSE i \in slashes : \A j \in slashes : j <= i
    IN  IF slashes = {} THEN p ELSE SubSeq(p, last + 1, Len(p))

\* path.extname(p): from the last dot of the last segment on; empty when
\* there is no dot, when the only dot leads the segment, and for ".."
extname(p) ==
    LET base == basename(p)
        dots == {i \in 1..Len(base) : base[i] = "."}
        last == CHOOSE i \in dots : \A j \in dots : j <= i
    IN  IF dots = {} THEN <<>>
        ELSE IF last = 1 THEN <<>>
        ELSE IF base = <<".", ".">> THEN <<>>
        ELSE SubSeq(base, last, Len(base))

\* the binaryExtensions array of isBinaryFile
BinaryExtensions ==
    {<<".", "j", "p", "g">>, <<".", "j", "p", "e", "g">>, <<".", "p", "n", "g">>,
     <<".", "g", "i", "f">>, <<".", "b", "m", "p">>, <<".", "i", "c", "o">>,
     <<".", "t", "i", "f", "f">>, <<".", "w", "e", "b", "p">>, <<".", "p", "d", "f">>,
     <<".", "d", "o", "c">>, <<".", "d", "o", "c", "x">>, <<".", "x", "l", "s">>,
     <<".", "x", "l", "s", "x">>, <<".", "p", "p", "t">>, <<".", "p", "p", "t", "x">>,
     <<".", "z", "i", "p">>, <<".", "t", "a", "r">>, <<".", "g", "z">>,
     <<".", "r", "a", "r">>, <<".", "7", "z">>, <<".", "e", "x", "e">>,
     <<".", "d", "l", "l">>, <<".", "s", "o">>, <<".", "d", "y", "l", "i", "b">>,
     <<".", "m", "p", "3">>, <<".", "m", "p", "4">>, <<".", "a", "v", "i">>,
     <<".", "m", "o", "v">>, <<".", "w", "a", "v">>, <<".", "f", "l", "a", "c">>,
     <<".", "b", "i", "n">>, <<".", "d", "a", "t">>, <<".", "d", "b">>,
     <<".", "s", "q", "l", "i", "t", "e">>, <<".", "w", "o", "f", "f">>, <<".", "w", "o", "f", "f", "2">>,
     <<".", "t", "t", "f">>, <<".", "o", "t", "f">>}

\* (mutant) the extension is compared as it is written
isBinaryFileCaseSensitive(filePath) == extname(filePath) \in BinaryExtensions

\* isBinaryFile(filePath)
isBinaryFile(filePath) == toLowerCase(extname(filePath)) \in BinaryExtensions

\* requestData of uploadSingleFile: fileContent.toString('base64') or
\* fileContent.toString('utf8')
requestData(localFilePath) ==
    LET isBinary == isBinaryFile(localFilePath)
    IN  [type |-> "file",
         format |-> IF isBinary THEN "base64" ELSE "text",
         content |-> IF isBinary THEN "base64 of the file" ELSE "utf8 of the file"]

\* local file paths: a folder, a stem and an extension as the user wrote it
LocalStems == {<<"p", "h", "o", "t", "o">>, <<"n", "o", "t", "e", "s">>, <<"a", ".", "b">>, <<"/", "x", ".", "p", "n", "g", "/", "n">>, <<>>}

OtherExtensions == {<<>>, <<".">>, <<".", "m", "d">>, <<".", "t", "x", "t">>, <<".", "p", "n", "g", "x">>, <<".", "p", "n", "g", ".">>}

LocalExtensions ==
    BinaryExtensions \cup OtherExtensions
        \cup {[i \in 1..Len(e) |->
                  IF \E k \in 1..Len(LowerCase) : LowerCase[k] = e[i]
                  THEN UpperCase[CHOOSE k \in 1..Len(LowerCase) : LowerCase[k] = e[i]]
                  ELSE e[i]] : e \in BinaryExtensions \cup OtherExtensions}

LocalFilePaths == {stem \o ext : stem \in LocalStems, ext \in LocalExtensions}

NoRequestData == [type |-> "", format |-> "", content |-> ""]

InitBinary ==
    /\ CacheIdle
    /\ pendingRequests = <<>>
    /\ requestDelay = Ms(100)
    /\ lastRequestTime = 0
    /\ isConnected = TRUE
    /\ axiosInstance = 1
    /\ connCount = 1
    /\ enableCaching = TRUE
    /\ callers = [c \in Callers |-> IdleCaller]
    /\ mq = <<>>
    /\ nCalls = 0
    /\ lastConnection = TRUE
    /\ reconnectAttempts = 0
    /\ reconnectTimer = NoTimer
    /\ autoConnects = 0
    /\ budget = [calls |-> MaxCalls, conns |-> MaxConnections]
    /\ tree = {}
    /\ op = NoOp
    /\ task = [p \in Paths |-> IdleTask]
    /\ events = <<>>
    /\ nDelete = 0
    /\ nList = 0
    /\ delIssued = {}
    /\ targetAcked = FALSE
    /\ exhausted = {}
    /\ listed = [p \in Dirs |-> [seen |-> FALSE, contents |-> <<>>]]
    /\ move = NoMove
    /\ gate = <<>>
    /\ grants = <<>>
    /\ norm = NoNorm
    /\ health = NoHealth
    /\ \E localFilePath \in LocalFilePaths :
          upload = [pc |-> "idle", localFilePath |-> localFilePath, data |-> NoRequestData]

\* uploadSingleFile(localFilePath, remotePath) up to its PUT
uploadSingleFilePut ==
    /\ upload.pc = "idle"
    /\ upload' = [upload EXCEPT !.pc = "put", !.data = requestData(upload.localFilePath)]
    /\ lastRequestTime' = now
    /\ UNCHANGED <<cache, pendingRequests>>
    /\ UNCHANGED uploadRest

NextBinary == uploadSingleFilePut

SpecBinary == InitBinary /\ [][NextBinary]_vars

(***************************************************************************)
(* SpecPath: the path conversions, applied to every short path.            *)
(***************************************************************************)
MaxPathLen == 6

PathChars == {"/", "a", "b", "c"}

InputPaths == UNION {[1..n -> PathChars] : n \in 0..MaxPathLen}

\* the path of the URI openFile opens: `/${filePath}`
openFileUriPath(filePath) == Slash \o filePath

InitPath ==
    /\ CacheIdle
    /\ FsIdle
    /\ pendingRequests = <<>>
    /\ requestDelay = Ms(100)
    /\ lastRequestTime = 0
    /\ isConnected = TRUE
    /\ axiosInstance = 1
    /\ connCount = 1
    /\ enableCaching = TRUE
    /\ callers = [c \in Callers |-> IdleCaller]
    /\ mq = <<>>
    /\ nCalls = 0
    /\ lastConnection = TRUE
    /\ reconnectAttempts = 0
    /\ reconnectTimer = NoTimer
    /\ autoConnects = 0
    /\ budget = [calls |-> MaxCalls, conns |-> MaxConnections]

pathRest == <<cacheVars, clientVars, fsVars, moveVars, uploadVars, gateVars, healthVars,
              extVars>>

\* stat(uri), moveItem, uploadFolderRecursive: the path that goes into the
\* request URL
apiPathOf(path) ==
    /\ norm.pc = "idle"
    /\ norm' = [pc |-> "api", path |-> path, result |-> stripLeadingSlash(path)]
    /\ UNCHANGED pathRest

\* openFile(filePath): the path of the URI handed to the editor
displayPathOf(filePath) ==
    /\ norm.pc = "idle"
    /\ norm' = [pc |-> "display", path |-> filePath, result |-> openFileUriPath(filePath)]
    /\ UNCHANGED pathRest

\* extractParentPath(path), as the change events and rename use it
parentPathOf(path) ==
    /\ norm.pc = "idle"
    /\ norm' = [pc |-> "parent", path |-> path, result |-> extractParentPath(path)]
    /\ UNCHANGED pathRest

NextPath ==
    \/ \E path \in InputPaths : apiPathOf(path)
    \/ \E filePath \in InputPaths : displayPathOf(filePath)
    \/ \E path \in InputPaths : parentPathOf(path)

SpecPath == InitPath /\ [][NextPath]_vars

(***************************************************************************)
(* SpecList: what getChildren returns for what makeRequestWithCache gave   *)
(* it.                                                                     *)
(***************************************************************************)
MaxItems == 2

\* an entry of response.data.content; valid = FALSE is an entry that is null
ContentItems ==
    {[name |-> <<"b">>, type |-> "directory", path |-> <<"b">>, valid |-> TRUE],
     [name |-> <<"a">>, type |-> "file", path |-> <<"a">>, valid |-> TRUE],
     [name |-> <<"C">>, type |-> "file", path |-> <<"C">>, valid |-> TRUE],
     [name |-> <<>>, type |-> "", path |-> <<>>, valid |-> FALSE]}

\* response.data: absent, or with content that is absent, a string (the
\* path was a file) or an array
ListBodies ==
    {[present |-> FALSE, content |-> [type |-> "missing", items |-> <<>>]],
     [present |-> TRUE, content |-> [type |-> "missing", items |-> <<>>]],
     [present |-> TRUE, content |-> [type |-> "string", items |-> <<>>]]}
    \cup {[present |-> TRUE, content |-> [type |-> "array", items |-> items]] :
            items \in UNION {[1..n -> ContentItems] : n \in 0..MaxItems}}

\* what makeRequestWithCache resolves with or throws
ListResults ==
    {[kind |-> "response", status |-> st, data |-> d] : st \in {200, 404}, d \in ListBodies}
    \cup {[kind |-> "cached", status |-> 200, data |-> d] : d \in ListBodies}
    \cup {[kind |-> "throw", error |-> o] : o \in {x \in Outcomes : ~Resolves(x)}}

\* a.localeCompare(b) for lower-case ASCII words: -1, 0 or 1
RECURSIVE localeCompare(_, _)
localeCompare(a, b) ==
    LET rank(ch) == CHOOSE k \in 1..Len(LowerCase) : LowerCase[k] = ch
    IN  IF a = <<>> /\ b = <<>> THEN 0
        ELSE IF a = <<>> THEN -1
        ELSE IF b = <<>> THEN 1
        ELSE IF rank(Head(a)) < rank(Head(b)) THEN -1
        ELSE IF rank(Head(a)) > rank(Head(b)) THEN 1
        ELSE localeCompare(Tail(a), Tail(b))

\* comparators.type of sortItems, the default of sortFiles
typeComparator(a, b) ==
    IF a.collapsible # b.collapsible
    THEN (IF a.collapsible THEN -1 ELSE 1)
    ELSE localeCompare(toLowerCase(a.label), toLowerCase(b.label))

\* items.sort(comparator), ascending; Array.prototype.sort is stable
RECURSIVE sortItems(_)
sortItems(items) ==
    IF Len(items) <= 1 THEN items
    ELSE LET sorted == sortItems(SubSeq(items, 1, Len(items) - 1))
             x == items[Len(items)]
             k == Cardinality({i \in 1..Len(sorted) : typeComparator(sorted[i], x) <= 0})
         IN  SubSeq(sorted, 1, k) \o <<x>> \o SubSeq(sorted, k + 1, Len(sorted))

\* new FileItem(item.name, item.type === 'directory', item.path, item)
FileItem(item) ==
    [label |-> item.name, collapsible |-> (item.type = "directory"), uri |-> item.path]

Returned(items) == [kind |-> "return", items |-> items]

Thrown == [kind |-> "throw", items |-> <<>>]

\* the try block of getChildren after the await
getChildrenTry(mrc) ==
    IF mrc.kind = "throw" THEN Thrown
    ELSE IF ~mrc.data.present THEN Returned(<<>>)
    ELSE IF mrc.data.content.type # "array" THEN Returned(<<>>)
    ELSE IF \E i \in 1..Len(mrc.data.content.items) : ~mrc.data.content.items[i].valid
    THEN Thrown
    ELSE Returned(sortItems([i \in 1..Len(mrc.data.content.items) |->
                                FileItem(mrc.data.content.items[i])]))

\* (mutant) the catch block without the try around handleApiError
getChildrenResultRethrows(mrc) == getChildrenTry(mrc)

\* getChildren after the await: the try block, and the catch block in which
\* handleApiError always throws and the throw is caught again
getChildrenResult(mrc) ==
    IF getChildrenTry(mrc).kind = "throw" THEN Returned(<<>>) ELSE getChildrenTry(mrc)

InitList ==
    /\ CacheIdle
    /\ FsIdle
    /\ pendingRequests = <<>>
    /\ requestDelay = Ms(100)
    /\ lastRequestTime = 0
    /\ isConnected = TRUE
    /\ axiosInstance = 1
    /\ connCount = 1
    /\ enableCaching = TRUE
    /\ \E mrc \in ListResults :
          callers = [c \in Callers |->
                        IF c = 1 THEN [pc |-> "gcResume", mrc |-> mrc] ELSE IdleCaller]
    /\ mq = <<1>>
    /\ nCalls = 1
    /\ lastConnection = TRUE
    /\ reconnectAttempts = 0
    /\ reconnectTimer = NoTimer
    /\ autoConnects = 0
    /\ budget = [calls |-> MaxCalls, conns |-> MaxConnections]

\* getChildren from the await to its return statement
getChildrenReturns(autoReconnect) ==
    getChildrenEnds(1, autoReconnect,
                    [pc |-> "returned", mrc |-> callers[1].mrc,
                     result |-> getChildrenResult(callers[1].mrc)])

NextList == \E autoReconnect \in BOOLEAN : getChildrenReturns(autoReconnect)

SpecList == InitList /\ [][NextList]_vars

(***************************************************************************)
(* SpecGate: requests of concurrent callers passing the request            *)
(* interceptor, i.e. enforceRateLimit(), while the clock advances.  Here   *)
(* now and lastRequestTime are in 1/1000 ms, like requestDelay.            *)
(***************************************************************************)
NRequests == 3
MaxGateTicks == 4

Requests == 1..NRequests

\* "waitTime = this.requestDelay - timeSinceLastRequest", 0 when the test
\* "timeSinceLastRequest < this.requestDelay" fails
waitTime(t, last, delay) == IF t - last < delay THEN delay - (t - last) ELSE 0

InitGate ==
    /\ cache = <<>>
    /\ cacheTimeout = 1
    /\ maxCacheSize = DefaultMaxCacheSize
    /\ now = Ms(1000)
    /\ lastPut = NoCall
    /\ lastGet = NoCall
    /\ putKeys = <<>>
    /\ pendingRequests = <<>>
    /\ requestDelay = Ms(100)
    /\ lastRequestTime = 0
    /\ isConnected = TRUE
    /\ axiosInstance = 1
    /\ connCount = 1
    /\ enableCaching = TRUE
    /\ callers = [c \in Callers |-> IdleCaller]
    /\ mq = <<>>
    /\ nCalls = 0
    /\ lastConnection = TRUE
    /\ reconnectAttempts = 0
    /\ reconnectTimer = NoTimer
    /\ autoConnects = 0
    /\ budget = [calls |-> MaxCalls, conns |-> MaxConnections]
    /\ tree = {}
    /\ op = NoOp
    /\ task = [p \in Paths |-> IdleTask]
    /\ events = <<>>
    /\ nDelete = 0
    /\ nList = 0
    /\ delIssued = {}
    /\ targetAcked = FALSE
    /\ exhausted = {}
    /\ listed = [p \in Dirs |-> [seen |-> FALSE, contents |-> <<>>]]
    /\ move = NoMove
    /\ upload = NoUpload
    /\ norm = NoNorm
    /\ health = NoHealth
    /\ gate = [r \in Requests |-> [pc |-> "idle", wake |-> 0]]
    /\ grants = <<>>

gateRest == <<cache, cacheTimeout, maxCacheSize, unitObs, pendingRequests, requestDelay,
              isConnected, axiosInstance, enableCaching, callers, mq, nCalls, connCount,
              fsVars, moveVars, uploadVars, pathVars, healthVars, extVars>>

\* a request reaches the interceptor: enforceRateLimit() up to its await, or
\* to its end when there is nothing to wait for
gateEnter(r) ==
    /\ gate[r].pc = "idle"
    /\ \A q \in Requests : q < r => gate[q].pc # "idle"
    /\ LET w == waitTime(now, lastRequestTime, requestDelay)
       IN  IF w > 0
           THEN /\ gate' = [gate EXCEPT ![r] = [pc |-> "waiting", wake |-> now + w]]
                /\ UNCHANGED <<lastRequestTime, grants>>
           ELSE /\ gate' = [gate EXCEPT ![r].pc = "granted"]
                /\ lastRequestTime' = now
                /\ grants' = Append(grants, now)
    /\ UNCHANGED now
    /\ UNCHANGED gateRest

\* the timeout of a waiting request has run out: "this.lastRequestTime =
\* Date.now()" and the request goes out
gateResume(r) ==
    /\ gate[r].pc = "waiting"
    /\ now >= gate[r].wake
    /\ gate' = [gate EXCEPT ![r].pc = "granted"]
    /\ lastRequestTime' = now
    /\ grants' = Append(grants, now)
    /\ UNCHANGED now
    /\ UNCHANGED gateRest

\* half a request delay passes
GateTick ==
    /\ now < Ms(1000) + MaxGateTicks * (requestDelay \div 2)
    /\ now' = now + requestDelay \div 2
    /\ UNCHANGED <<gate, grants, lastRequestTime>>
    /\ UNCHANGED gateRest

NextGate ==
    \/ \E r \in Requests : gateEnter(r)
    \/ \E r \in Requests : gateResume(r)
    \/ GateTick

SpecGate == InitGate /\ [][NextGate]_vars

(***************************************************************************)
(* SpecHealth: the connect and disconnect commands, one caller listing a   *)
(* directory, and the health check that extension.ts runs on an interval.  *)
(***************************************************************************)
InitHealth ==
    /\ CacheIdle
    /\ ClientIdle
    /\ FsIdle

\* the callback of the interval set by startHealthChecks, which calls
\* checkConnectionHealth() while lastConnection is set, and that function up to
\* "await this.axiosInstance.get('api/status')": the GET passes the request
\* interceptor and is sent on the instance of that moment
checkConnectionHealth(h) ==
    /\ mq = <<>>
    /\ health[h].pc = "idle"
    /\ \A g \in HealthChecks : g < h => health[g].pc # "idle"
    /\ lastConnection
    /\ axiosInstance # 0
    /\ health' = [health EXCEPT ![h] = [pc |-> "await", instance |-> axiosInstance]]
    /\ lastRequestTime' = now
    /\ UNCHANGED <<cacheVars, pendingRequests, requestDelay, isConnected, axiosInstance,
                   enableCaching, callers, mq, nCalls, connCount>>
    /\ UNCHANGED <<fsVars, moveVars, uploadVars, gateVars, pathVars, extVars>>

\* checkConnectionHealth() after the await. The GET resolved: isHealthy is
\* "status === 200", and a healthy answer while isConnected is false sets
\* isConnected = true. The GET rejected: the catch block calls
\* handleConnectionLoss() if isConnected. autoReconnect is the setting the
\* connection-lost listener reads.
checkConnectionHealthResumes(h, o, autoReconnect) ==
    /\ mq = <<>>
    /\ health[h].pc = "await"
    /\ health' = [health EXCEPT ![h] = IdleCheck]
    /\ requestDelay' = IF Resolves(o) THEN requestDelay
                       ELSE responseInterceptor(requestDelay, o)
    /\ IF Resolves(o)
       THEN /\ isConnected' = (isConnected \/ o.status = 200)
            /\ UNCHANGED <<cache, pendingRequests, axiosInstance, connCount, lastConnection,
                           reconnectAttempts, reconnectTimer, autoConnects>>
       ELSE IF isConnected
       THEN handleConnectionLoss(autoReconnect)
       ELSE UNCHANGED <<cache, pendingRequests, isConnected, axiosInstance, connCount,
                        lastConnection, reconnectAttempts, reconnectTimer, autoConnects>>
    /\ UNCHANGED <<cacheTimeout, maxCacheSize, now, unitObs, lastRequestTime, enableCaching,
                   callers, mq, nCalls>>
    /\ UNCHANGED <<fsVars, moveVars, uploadVars, gateVars, pathVars, budget>>

NextHealth ==
    \/ \E v \in BOOLEAN, ar \in BOOLEAN : connectCommand(v, ar)
    \/ \E ar \in BOOLEAN : reconnectTimerFires(ar)
    \/ \E ar \in BOOLEAN : overwrittenTimerFires(ar)
    \/ disconnectFromJupyter
    \/ \E h \in HealthChecks : checkConnectionHealth(h)
    \/ \E h \in HealthChecks, o \in Outcomes, ar \in BOOLEAN :
          checkConnectionHealthResumes(h, o, ar)
    \/ getChildren(1, SessionUrl)
    \/ enforceRateLimit(1)
    \/ \E o \in Outcomes : RequestSettles(1, o)
    \/ ResumeOwn(1)
    \/ \E ar \in BOOLEAN : ResumeGetChildren(1, ar)

SpecHealth == InitHealth /\ [][NextHealth]_vars

(***************************************************************************)
(* C1, C2 and C5.                                                          *)
(***************************************************************************)
\* a caller's own GET is in flight: issued and not yet settled
InFlight(c) == callers[c].pc = "awaitOwn" /\ callers[c].req \in {"gate", "sent"}

\* the caller found the key's request pending, awaited it, and it resolved
JoinedResolved(c) ==
    /\ callers[c].pc = "gcResume"
    /\ callers[c].joined # 0
    /\ Resolves(callers[c].joinOutcome.outcome)

C2_AtMostOneInFlight ==
    enableCaching =>
        \A a, b \in Callers :
            (InFlight(a) /\ InFlight(b) /\ callers[a].url = callers[b].url) => a = b

\* a throttling outcome: HTTP 429 or a timeout
Throttled(o) == o.status = 429 \/ o.code = "ECONNABORTED"

\* C5: the adjustment of the delay made for a throttling outcome never lowers
\* the delay and keeps it at or below the maximum (5000 ms); the adjustment
\* made for a success never raises it and keeps it at or above the configured
\* minimum (50 ms).
C5_MonotonicBackoff ==
    [][\A c \in Callers :
        (mq # <<>> /\ Head(mq) = c /\ callers[c].pc = "awaitOwn") =>
            LET o == callers[c].settled.outcome
            IN  /\ Throttled(o) =>
                    (requestDelay' >= requestDelay /\ requestDelay' <= Ms(5000))
                /\ o.status = 200 =>
                    (requestDelay' <= requestDelay /\ requestDelay' >= Ms(50))]_vars

(***************************************************************************)
(* C3 and C4.                                                              *)
(***************************************************************************)
\* C3: a put(k, v) followed at once by get(k) returns v; a get(k) of an entry
\* whose age is no longer below cacheTimeout returns a miss and removes the
\* stale entry from the cache.
C3_CacheTtl ==
    lastGet # NoCall =>
        /\ (lastGet.put # NoCall /\ lastGet.put.key = lastGet.key
                /\ lastGet.put.at = lastGet.at)
            => lastGet.data = lastGet.put.data
        /\ (lastGet.stored # NoCall
                /\ lastGet.at - lastGet.stored.timestamp >= cacheTimeout)
            => (lastGet.data = NULL /\ lastGet.dropped)

\* C3 witness: a get found an entry as old as cacheTimeout, missed and dropped it
C3_Witness ==
    /\ lastGet # NoCall
    /\ lastGet.stored # NoCall
    /\ lastGet.at - lastGet.stored.timestamp >= cacheTimeout
    /\ lastGet.data = NULL
    /\ lastGet.dropped

\* C4: the cache never holds more than maxCacheSize entries, and after
\* maxCacheSize + 1 distinct keys were put into an empty cache exactly the
\* first-inserted key is gone.
C4_FifoAtCapacity ==
    /\ Len(cache) <= maxCacheSize
    /\ Len(putKeys) = maxCacheSize + 1
        => MapKeys(cache) = {putKeys[i] : i \in 2..Len(putKeys)}


(***************************************************************************)
(* Recursive delete, force delete and change events (SpecFs).              *)
(***************************************************************************)
\* the path the running operation was called for, as an API path
Target == stripLeadingSlash(op.uri)

\* C6: recursive delete tolerates a failing child: when a directory's
\* listing had three entries f1, f2, f3 and deleteFileWithRetry gave up on
\* f2, a DELETE has still been issued for f3 and for the directory itself by
\* the time the delete operation ends.
C6_FailingChildTolerated ==
    (op.kind = "delete" /\ op.pc = "done") =>
        \A dir \in Dirs :
            (Len(listed[dir].contents) = 3 /\ listed[dir].contents[2] \in exhausted) =>
                /\ listed[dir].contents[3] \in delIssued
                /\ dir \in delIssued

\* C7: a recursive delete of a directory whose listing is empty issues
\* exactly one DELETE, for the directory itself, and no listing GET beyond
\* the first one.
C7_EmptyDirectoryOneDelete ==
    (op.kind = "delete" /\ Target \in Dirs /\ listed[Target].seen
        /\ listed[Target].contents = <<>>) =>
        /\ nList = 1
        /\ nDelete = 1
        /\ delIssued = {Target}

C7_Witness ==
    /\ op.kind = "delete"
    /\ op.pc = "done"
    /\ op.res = "ok"
    /\ Target \in Dirs
    /\ listed[Target].seen
    /\ listed[Target].contents = <<>>
    /\ Target \notin tree

\* parent(P): P up to its last slash, the root for a top-level path
ParentOf(P) ==
    LET slashes == {i \in 1..Len(P) : P[i] = "/"}
        last == CHOOSE i \in slashes : \A j \in slashes : j <= i
    IN  IF slashes = {} \/ slashes = {1} THEN Slash ELSE SubSeq(P, 1, last - 1)

\* C9: an operation that created P and returned fired exactly Created(P)
\* and then Changed(parent(P)); one that deleted P and returned fired
\* exactly Deleted(P) and then Changed(parent(P)), and no Changed(P).
C9_ChangeEventPairing ==
    (op.pc = "done" /\ op.res = "ok") =>
        /\ (op.kind = "createDirectory" \/ (op.kind = "writeFile" /\ op.create)) =>
              events = <<[type |-> "Created", path |-> op.uri],
                         [type |-> "Changed", path |-> ParentOf(op.uri)]>>
        /\ op.kind \in {"delete", "forceDelete"} =>
              /\ events = <<[type |-> "Deleted", path |-> op.uri],
                            [type |-> "Changed", path |-> ParentOf(op.uri)]>>
              /\ \A i \in 1..Len(events) :
                    ~(events[i].type = "Changed" /\ events[i].path = op.uri)

C9_Witness ==
    /\ op.kind = "createDirectory"
    /\ op.pc = "done"
    /\ op.res = "ok"
    /\ op.uri = Slash \o PathS
    /\ PathS \in tree
    /\ events = <<[type |-> "Created", path |-> Slash \o PathS],
                  [type |-> "Changed", path |-> Slash \o PathD]>>

\* the delete half of C9 happens too: a nested file was deleted
C9_WitnessDelete ==
    /\ op.kind = "delete"
    /\ op.pc = "done"
    /\ op.res = "ok"
    /\ op.uri = PathX
    /\ PathX \notin tree
    /\ events = <<[type |-> "Deleted", path |-> PathX],
                  [type |-> "Changed", path |-> PathS]>>

\* C10: a force delete whose directory DELETE was rejected in every one
\* of the DefaultMaxAttempts rounds of forceDeleteRecursive ends with an
\* error.
C10_ForceDeleteExhaustionRaises ==
    (op.kind = "forceDelete" /\ op.pc = "done"
        /\ op.dirRejects = DefaultMaxAttempts) => op.res = "err"

(***************************************************************************)
(* Moves inside the tree (SpecMove).                                       *)
(***************************************************************************)
\* T is D itself or lies inside D
InsideOrSelf(T, D) == T = D \/ startsWith(T, D \o Slash)

\* C8: a dragged directory D dropped on a target path that is D or lies
\* inside D is rejected and counted as an error, no PATCH is ever sent for
\* it, and the drop goes on to the end of the batch.
C8_SelfContainmentGuard ==
    /\ \A i \in 1..Len(move.items) :
          (move.items[i].collapsible
              /\ InsideOrSelf(move.targetPath, move.items[i].uri)) =>
              /\ i <= Len(move.results) => move.results[i] = "rejected"
              /\ \A k \in 1..Len(move.patches) :
                    move.patches[k].source # stripLeadingSlash(move.items[i].uri)
    /\ move.errorCount =
          Cardinality({i \in 1..Len(move.results) :
                          move.results[i] \in {"rejected", "failed"}})
    /\ move.pc = "patch" => Len(move.results) = move.idx - 1
    /\ (move.pc = "done" /\ move.items # <<>>) =>
          /\ Len(move.results) = Len(move.items)
          /\ move.refreshes = 1

C8_Witness ==
    /\ move.pc = "done"
    /\ Len(move.items) = 2
    /\ move.items[1].uri = <<"a">>
    /\ move.targetPath = <<"a", "/", "s">>
    /\ move.results = <<"rejected", "moved">>
    /\ move.errorCount = 1
    /\ move.successCount = 1
    /\ Len(move.patches) = 1


(***************************************************************************)
(* Connection replacement (Spec).                                          *)
(***************************************************************************)
\* C11: no stale data crosses connections: while a connection is set, every
\* payload held in the response cache came from the server of that
\* connection.
C11_NoStaleDataAcrossConnections ==
    axiosInstance # 0 =>
        \A i \in 1..Len(cache) : cache[i].data = ServerData(axiosInstance)


\* C12: while no connection is active (never connected, disconnected, or
\* the connection detected lost), a drop of dragged items sends no request.
C12_NotConnectedFailFast ==
    ~isConnected => move.patches = <<>>

\* C13: while the server does not answer, the extension itself calls
\* connectToJupyter at most maxReconnectAttempts times.
C13_AutoReconnectBounded ==
    autoConnects <= DefaultMaxReconnectAttempts

\* C20: a step that sets a new connection leaves requestDelay at its initial
\* value.
C20_NewConnectionResetsLimiter ==
    [][(axiosInstance' # axiosInstance /\ axiosInstance' # 0)
            => requestDelay' = Ms(100)]_vars

\* C14: after createDirectory, writeFile or delete changed P on the server
\* and returned, the cache holds no entry for P and none for the listing of
\* P's parent directory.
C14_MutationInvalidatesCache ==
    (/\ op.pc = "done" /\ op.res = "ok"
     /\ \/ op.kind \in {"createDirectory", "writeFile"} /\ Target \in tree
        \/ op.kind = "delete" /\ Target \notin tree)
        => \A i \in 1..Len(cache) :
              cache[i].key \notin {cacheKeyOf(Target), cacheKeyOf(dirOf(Target))}

\* C15: in a drop of n >= 1 items every item is processed whatever became
\* of the items before it; an item already in the target directory is
\* skipped without a PATCH and counted neither as success nor as error;
\* successes + errors + skips = n; and refresh() is called once, after the
\* last item, and not before.
C15_MoveBatchIndependence ==
    LET n == Len(move.items)
        Processed == 1..Len(move.results)
        With(kinds) == Cardinality({i \in Processed : move.results[i] \in kinds})
    IN  /\ move.pc = "patch" => Len(move.results) = move.idx - 1
        /\ \A i \in Processed :
              extractParentPath(move.items[i].uri) = move.targetPath
                  <=> move.results[i] = "skipped"
        /\ move.successCount = With({"moved"})
        /\ move.errorCount = With({"rejected", "failed"})
        /\ Len(move.patches) <= With({"moved", "failed"})
                                    + (IF move.pc = "patch" THEN 1 ELSE 0)
        /\ (move.pc = "done" /\ n > 0) =>
              /\ Len(move.results) = n
              /\ move.successCount + move.errorCount + With({"skipped"}) = n
        /\ move.refreshes = (IF move.pc = "done" /\ n > 0 THEN 1 ELSE 0)

\* a drop of two items: the PATCH of the first failed, the second was moved
C15_Witness ==
    /\ move.pc = "done"
    /\ Len(move.items) = 2
    /\ move.results = <<"failed", "moved">>
    /\ Len(move.patches) = 2
    /\ move.errorCount = 1
    /\ move.successCount = 1
    /\ move.refreshes = 1

\* the paths a PUT was sent for
SentPaths == {upload.sent[i] : i \in 1..Len(upload.sent)}

\* every entry of a folder whose directory was created was attempted, and so
\* on below it
RECURSIVE LevelAttempted(_, _)
LevelAttempted(entries, remotePath) ==
    stripLeadingSlash(remotePath) \in upload.resolved =>
        \A k \in 1..Len(entries) :
            LET path == childPath(remotePath, entries[k].name)
            IN  /\ stripLeadingSlash(path) \in SentPaths
                /\ entries[k].isDirectory => LevelAttempted(entries[k].entries, path)

\* C16: when an upload of one or more items has ended, every item of the
\* batch and every entry of each folder level that was reached has been
\* attempted, and the failures were reported once, at the end.
C16_UploadErrorPolicy ==
    (upload.pc = "done" /\ upload.items # <<>> /\ axiosInstance # 0) =>
        /\ \A i \in 1..Len(upload.items) :
              LET item == upload.items[i]
                  path == childPath(RemotePath, item.name)
              IN  /\ stripLeadingSlash(path) \in SentPaths
                  /\ item.isDirectory => LevelAttempted(item.entries, path)
        /\ ~upload.threw
        /\ upload.refreshes = 1
        /\ upload.warnings = (IF upload.successCount < Len(upload.items) THEN 1 ELSE 0)

\* C17: when the call that sent a request ends, requestDelay is the delay
\* the request's outcome found, adjusted once: times 1.5 (at most 5000 ms)
\* after a 429 or a timeout, times 0.95 (at least 100 ms) after a 200.
C17_RateOutcomeRule ==
    [][(callers[1].pc = "gcResume" /\ callers'[1].pc = "idle" /\ callers[1].issued = 1)
          => LET o == callers[1].settled.outcome
                 rd0 == callers[1].rd0
             IN  /\ (o.status = 429 \/ o.code = "ECONNABORTED")
                        => requestDelay' = Min((rd0 * 3) \div 2, Ms(5000))
                 /\ o.status = 200
                        => requestDelay' = Max((rd0 * 19) \div 20, Ms(100))]_vars

\* C18: the times at which enforceRateLimit lets any two requests go are at
\* least requestDelay apart.
C18_MinimumSpacing ==
    \A i, j \in 1..Len(grants) :
        i < j => grants[j] - grants[i] >= requestDelay

\* C19: when stat has swallowed the timeout of its request, requestDelay
\* has been backed off as adaptiveRateLimit does for a timeout.
C19_TransportFailureUpdatesLimiter ==
    (op.kind = "stat" /\ op.pc = "done" /\ op.err = "ECONNABORTED") =>
        requestDelay = adaptiveRateLimit(Ms(100), [status |-> 0, code |-> "ECONNABORTED"])

\* the extension of a file name as the user reads it: what follows the last
\* dot of the name, the dot included; a name without a dot, or whose only
\* dot is its first character, has none
ExtensionOf(path) ==
    LET name == basename(path)
        dots == {i \in 2..Len(name) : name[i] = "."}
    IN  IF dots = {} THEN <<>>
        ELSE SubSeq(name, CHOOSE i \in dots : \A j \in dots : j <= i, Len(name))

\* C21: a file is uploaded with format base64 and base64 content exactly
\* when its extension, lower-cased, is one of the binary extensions, and
\* with format text and utf8 content otherwise.
C21_BinaryDetection ==
    upload.pc = "put" =>
        IF toLowerCase(ExtensionOf(upload.localFilePath)) \in BinaryExtensions
        THEN upload.data.format = "base64" /\ upload.data.content = "base64 of the file"
        ELSE upload.data.format = "text" /\ upload.data.content = "utf8 of the file"

\* photo.PNG went out as base64
C21_Witness ==
    /\ upload.pc = "put"
    /\ upload.localFilePath = <<"p", "h", "o", "t", "o", ".", "P", "N", "G">>
    /\ upload.data.format = "base64"

\* C22: the display path of a path and the display path of its API path are
\* the same path.
C22_DisplayRoundTrip ==
    norm.pc = "display" =>
        openFileUriPath(stripLeadingSlash(norm.path)) = norm.result

\* C23: stripping the leading slash of an API path changes nothing, and an
\* API path has no leading slash.
C23_ApiPathIdempotent ==
    norm.pc = "api" =>
        /\ stripLeadingSlash(norm.result) = norm.result
        /\ ~ startsWith(norm.result, Slash)

\* the position of the last slash of a path, 0 when it has none
LastSlash(path) ==
    LET slashes == {i \in 1..Len(path) : path[i] = "/"}
    IN  IF slashes = {} THEN 0 ELSE CHOOSE i \in slashes : \A j \in slashes : j <= i

\* C24: the parent of a path is what precedes its last slash, i.e. the path
\* without its last segment and that segment's separator, and "/" when
\* nothing precedes it; the parent of /a/b/c is /a/b, of /a is /, of / is /.
C24_ParentOf ==
    norm.pc = "parent" =>
        /\ norm.result = IF LastSlash(norm.path) <= 1 THEN Slash
                         ELSE SubSeq(norm.path, 1, LastSlash(norm.path) - 1)
        /\ norm.path = <<"/", "a", "/", "b", "/", "c">> => norm.result = <<"/", "a", "/", "b">>
        /\ norm.path = <<"/", "a">> => norm.result = Slash
        /\ norm.path = Slash => norm.result = Slash

\* the parent of /a was asked for, and is /
C24_Witness ==
    /\ norm.pc = "parent"
    /\ norm.path = <<"/", "a">>
    /\ norm.result = Slash

Recovering == {"relist", "retryChild", "retryFile"}

\* C26: an activation of deleteDirectoryRecursive lists its directory again
\* only after its directory DELETE failed with 'not empty'; having done so it
\* goes through the remaining entries, the failures of which do not end it,
\* and sends the directory DELETE once more, after which it ends, with the
\* first error if that DELETE fails too.
C26_NotEmptyRecoverySingleShot ==
    [][\A p \in Dirs :
          (task[p].fn = "ddr" /\ task'[p] # task[p]) =>
              /\ task'[p].pc = "relist" => task[p].pc = "delDir"
              /\ task[p].pc \in Recovering => task'[p].pc \in Recovering \cup {"delFinal"}
              /\ task'[p].pc = "delFinal" => task[p].pc \in Recovering
              /\ task[p].pc = "delFinal" =>
                    /\ task'[p].pc = "done"
                    /\ task'[p].res = "err" => task'[p].err = "notEmpty"]_vars

\* C27: while the first DELETE of its directory is outstanding, an activation
\* of deleteDirectoryRecursive has had a delete requested for, and returned
\* by, every child of the listing it got.
C27_ChildrenBeforeParent ==
    \A p \in Dirs :
        (task[p].fn = "ddr" /\ task[p].pc = "delDir") =>
            /\ task[p].contents # <<>>
            /\ \A i \in 1..Len(task[p].contents) :
                  /\ task[p].contents[i] \in delIssued
                  /\ task[task[p].contents[i]].fn = "none"

\* the DELETE of a directory is outstanding whose listing held several
\* children
C27_Witness ==
    \E p \in Dirs :
        /\ task[p].fn = "ddr"
        /\ task[p].pc = "delDir"
        /\ Len(task[p].contents) >= 2
        /\ p \in delIssued

\* C28: a round of forceDeleteRecursive that got a listing starts the
\* deletion of every child of it, and each of them runs to its end whatever
\* becomes of the others; the directory DELETE of the round is sent when all
\* of them have ended; the rounds number at most 5 for the directory of the
\* operation and at most 3 for a directory below it.
C28_ForceDeleteRounds ==
    [][\A p \in Dirs :
          (task[p].fn = "fdr" /\ task[p].pc # "done") =>
              /\ task[p].attempt \in 1..task[p].max
              /\ task[p].max = IF p = Target THEN 5 ELSE 3
              /\ task[p].pc = "children" =>
                    \A i \in 1..Len(task[p].contents) :
                        LET item == task[p].contents[i]
                        IN  /\ task[item].fn = IF item \in Dirs THEN "fdr" ELSE "dfr"
                            /\ item \notin Dirs => item \in delIssued
                            /\ task[item].pc # "done" => task'[item].fn = task[item].fn
              /\ (task'[p].pc = "delDir" /\ task[p].pc # "delDir") =>
                    /\ task[p].pc = "children"
                    /\ \A i \in 1..Len(task[p].contents) :
                          task[task[p].contents[i]].pc = "done"]_vars

\* the directory DELETE of a round is outstanding although the deletion of
\* one of the children failed for good
C28_Witness ==
    \E p \in Dirs :
        /\ task[p].fn = "fdr"
        /\ task[p].pc = "delDir"
        /\ Len(task[p].contents) >= 2
        /\ \E i \in 1..Len(task[p].contents) : task[p].contents[i] \in exhausted
        /\ \A i \in 1..Len(task[p].contents) : task[p].contents[i] \in delIssued

\* the remote directory an uploaded entry goes into: its path up to the last
\* slash
RemoteParent(path) == SubSeq(path, 1, LastSlash(path) - 1)

C30_ListNeverThrows ==
    callers[1].pc = "returned" =>
        /\ callers[1].result.kind = "return"
        /\ (\/ callers[1].mrc.kind = "throw"
            \/ ~callers[1].mrc.data.present
            \/ callers[1].mrc.data.content.type # "array")
              => callers[1].result.items = <<>>

\* the request was refused, and getChildren returned the empty list
C30_Witness ==
    /\ callers[1].pc = "returned"
    /\ callers[1].mrc.kind = "throw"
    /\ callers[1].mrc.error.code = "ECONNREFUSED"
    /\ callers[1].result = Returned(<<>>)
    /\ ~isConnected

\* C31: the state a refresh() or a disconnect leaves has an empty cache and
\* no pending request.
C31_ClearOnDisconnectAndRefresh ==
    [][(refresh \/ disconnectFromJupyter)
          => (cache' = <<>> /\ pendingRequests' = <<>>)]_vars

\* disconnected while a request was in flight: nothing is cached or pending
C31_Witness ==
    /\ ~isConnected
    /\ axiosInstance = 0
    /\ connCount >= 1
    /\ \E c \in Callers : callers[c].pc \notin {"idle", "gcResume"}
    /\ cache = <<>>
    /\ pendingRequests = <<>>

\* C32: of the PATCH requests of a drop, those answered 404 or 409 are
\* counted as errors: none of them is among the successes.
C32_MoveErrorTaxonomy ==
    LET refused == {i \in 1..Len(move.answers) : move.answers[i] \in {404, 409}}
    IN  /\ move.successCount + Cardinality(refused) <= Len(move.answers)
        /\ move.errorCount >= Cardinality(refused)

\* C33: when a delete has returned, every entry it removed from the server
\* has a Deleted event of its own among the events emitted.
C33_NoCoalescing ==
    (op.kind = "delete" /\ op.pc = "done" /\ op.res = "ok") =>
        \A p \in delIssued \ tree :
            \E i \in 1..Len(events) :
                /\ events[i].type = "Deleted"
                /\ stripLeadingSlash(events[i].path) = p

\* C34: the step in which the PUT of a writeFile fails emits no change
\* event.
C34_ChangeEventsOnlyOnSuccess ==
    [][writeFileSettles("reject") => events' = events]_vars

\* C35: a force delete that has emitted Deleted for its path, or ended with
\* the success message, had a DELETE of that path acknowledged by the server.
C35_ForceDeleteEventNeedsAck ==
    (/\ op.kind = "forceDelete"
     /\ op.pc = "done"
     /\ \/ op.res = "ok"
        \/ \E i \in 1..Len(events) :
              events[i].type = "Deleted" /\ events[i].path = op.uri)
        => targetAcked

\* C36: disconnect is stable. Once disconnect() has returned the provider stays
\* disconnected until the next setConnection call, whatever health checks and
\* requests were in flight; stated as the invariant the claim gives as its
\* equivalent: isConnected = true implies that an axios instance exists.
C36_DisconnectStable == isConnected => axiosInstance # 0

\* C37: no automatic reconnect after a user disconnect. While lastConnection
\* is unset (the user disconnected, or never connected, and has not connected
\* since) no step starts a connectToJupyter call on the extension's own
\* account: not a reconnect timeout, not the connection-lost listener, not a
\* health check.
C37_NoReconnectAfterDisconnect ==
    [][~lastConnection => autoConnects' <= autoConnects]_vars

\* C38: recursive delete terminates. Whatever the server answers to the
\* listings and the DELETEs (a server that always answers 'not empty'
\* included), a top-level delete that entered deleteDirectoryRecursive
\* finishes, by returning or by throwing.
C38_RecursiveDeleteTerminates ==
    (op.kind = "delete" /\ op.pc = "rec") ~> (op.kind = "delete" /\ op.pc = "done")

\* a recursive delete of a directory with a subdirectory has finished with an
\* error after at least three listings: a recovery listing was made
C38_Witness ==
    /\ op.kind = "delete" /\ op.pc = "done" /\ op.res = "err"
    /\ listed[PathD].seen /\ listed[PathS].seen
    /\ nList >= 3

\* C39: the self-containment guard rejects only real self-moves: an item of
\* the batch is rejected by the guard only when the target path is the item
\* itself or lies inside it; a directory "a" dropped on a different directory
\* "ab" is not rejected.
C39_GuardRejectsOnlySelfMoves ==
    \A i \in 1..Len(move.results) :
        move.results[i] = "rejected" =>
            /\ move.items[i].collapsible
            /\ InsideOrSelf(move.targetPath, move.items[i].uri)

====
